---------------------------- MODULE Spec2Model ----------------------------
(***************************************************************************)
(* A model of the instruction constraint library of zkevm-specs            *)
(* (src/src/zkevm_specs/evm_circuit/instruction.py): one Instruction       *)
(* object verifying one step (curr -> next) against the committed tables.  *)
(*                                                                         *)
(* Conventions.                                                            *)
(*  - An optional Python argument is a sequence: <<>> is None, <<v>> is v. *)
(*  - A raised Python exception is the status of the operation's result:   *)
(*    "AssertionError" for a failed assert statement,                      *)
(*    "ConstraintUnsatFailure" for an explicit raise of that class and     *)
(*    "LookupUnsatFailure" for a table lookup that matches no row.         *)
(*  - Field elements met by the step-state machinery are small: they are   *)
(*    kept as integers, a negative integer -k standing for the field       *)
(*    element p - k. The multi-limb arithmetic works on the full widths    *)
(*    and keeps numbers as little-endian byte sequences.                   *)
(***************************************************************************)
EXTENDS Integers, Sequences, FiniteSets, TLC

VARIABLES
    curr,                    \* Instruction.curr : StepState
    next,                    \* Instruction.next : StepState
    rw_counter_offset,       \* Instruction.rw_counter_offset
    program_counter_offset,  \* Instruction.program_counter_offset
    stack_pointer_offset,    \* Instruction.stack_pointer_offset
    log_index_offset,        \* Instruction.log_index_offset
    rw_table,                \* Instruction.tables.rw_table : set of RW rows
    reversion_info,          \* the ReversionInfo object in use (<<>> if none)
    call,                    \* the operation last invoked, with its arguments
    ret,                     \* its outcome: status and returned value
    log,                     \* history: every table lookup issued, in order
    steps,                   \* history: execution states of the verified steps
    default_transitions,     \* the Transition objects that are the default
                             \* arguments of
                             \* step_state_transition_in_same_context
    suspended                \* another Instruction, not running (<<>> if none)

vars == <<curr, next, rw_counter_offset, program_counter_offset,
          stack_pointer_offset, log_index_offset, rw_table, reversion_info,
          call, ret, log, steps, default_transitions, suspended>>

offsets == <<rw_counter_offset, program_counter_offset,
             stack_pointer_offset, log_index_offset>>

\* What lies outside the Instruction at hand.
elsewhere == <<default_transitions, suspended>>

None == <<>>

Some(v) == <<v>>

\* No operation invoked yet on this Instruction.
NoCall == [op |-> "none"]

NoRet == [status |-> "none"]

Ok(v) == [status |-> "ok", value |-> v]

Raise(kind) == [status |-> kind]

(***************************************************************************)
(* The default Transition objects.                                         *)
(***************************************************************************)

\* The keyword arguments of step_state_transition_in_same_context that are
\* transitions; each defaults to Transition.same().
SameContextKeys ==
    {"rw_counter", "program_counter", "stack_pointer", "memory_word_size",
     "reversible_write_counter", "log_id"}

\* A value that is a Python int.
IntValue(n) == [type |-> "int", n |-> n]

\* FQ(n) for an int n: the field element of n; the model meets small
\* non-negative n only.
FQValue(n) == [type |-> "FQ", n |-> n]

\* The objects Transition.same() built when the function was defined, one
\* for each defaulted argument: kind Same and the int 0 of
\* Transition.__init__ as value. Every call on every Instruction that leaves
\* the argument out is handed the same object.
DefaultTransitions ==
    [key \in SameContextKeys |-> [kind |-> "Same", value |-> IntValue(0)]]

(***************************************************************************)
(* Execution states.                                                       *)
(***************************************************************************)

\* The members of the ExecutionState enumeration the model uses.
ExecutionStates ==
    {"BeginTx", "EndTx", "EndBlock", "GASPRICE", "STOP", "RETURN", "REVERT",
     "ErrorOutOfGasConstant"}

\* ExecutionState.halts_in_success
halts_in_success(s) == s \in {"STOP", "RETURN"}

\* ExecutionState.halts_in_exception
halts_in_exception(s) == s \in {"ErrorOutOfGasConstant"}

\* ExecutionState.halts
halts(s) == halts_in_success(s) \/ halts_in_exception(s) \/ s = "REVERT"

\* A StepState whose fields other than execution_state are at their defaults.
\* is_root and is_create are kept as the field elements FQ(False) = 0 and
\* FQ(True) = 1 the constraints read them as.
StepState(es) ==
    [execution_state |-> es, rw_counter |-> 0, call_id |-> 0,
     is_root |-> 0, is_create |-> 0, code_hash |-> [lo |-> 0, hi |-> 0],
     program_counter |-> 0, stack_pointer |-> 1024, gas_left |-> 0,
     memory_word_size |-> 0, reversible_write_counter |-> 0, log_id |-> 0]

\* ExecFromSpecial with the EndBlock branch forgotten.
ExecFromSpecial_NoEndBlockBranch(c, n) ==
    IF c = "EndTx" THEN n \in {"BeginTx", "EndBlock"}
    ELSE TRUE

\* The first pair of asserts: constraints on next given special curr.
ExecFromSpecial(c, n) ==
    IF c = "EndTx" THEN n \in {"BeginTx", "EndBlock"}
    ELSE IF c = "EndBlock" THEN n = "EndBlock"
    ELSE TRUE

\* ExecIntoSpecial with the rule for a next step of BeginTx forgotten.
ExecIntoSpecial_BeginTxUnchecked(c, n) ==
    IF n = "EndTx" THEN halts(c) \/ c = "BeginTx"
    ELSE IF n = "EndBlock" THEN c \in {"EndTx", "EndBlock"}
    ELSE TRUE

\* ExecIntoSpecial with the EndBlock branch forgotten.
ExecIntoSpecial_NoEndBlockBranch(c, n) ==
    IF n = "BeginTx" THEN c = "EndTx"
    ELSE IF n = "EndTx" THEN halts(c) \/ c = "BeginTx"
    ELSE TRUE

\* The second group of asserts: constraints on curr given special next.
ExecIntoSpecial(c, n) ==
    IF n = "BeginTx" THEN c = "EndTx"
    ELSE IF n = "EndTx" THEN halts(c) \/ c = "BeginTx"
    ELSE IF n = "EndBlock" THEN c \in {"EndTx", "EndBlock"}
    ELSE TRUE

\* Instruction.constrain_execution_state_transition: the outcome for the pair
\* (curr.execution_state, next.execution_state). The asserts carry no message.
constrain_execution_state_transition(c, n) ==
    IF ~ExecFromSpecial(c, n) THEN Raise("AssertionError")
    ELSE IF ~ExecIntoSpecial(c, n) THEN Raise("AssertionError")
    ELSE Ok(None)

(***************************************************************************)
(* Specification SpecExec: a trace of steps checked pair by pair.          *)
(***************************************************************************)

\* Longest trace of steps the model follows.
MaxSteps == 4

InitExec ==
    /\ \E c \in ExecutionStates, n \in ExecutionStates :
          /\ curr = StepState(c)
          /\ next = StepState(n)
          /\ steps = <<c>>
          /\ default_transitions = DefaultTransitions
          /\ suspended = None
    /\ rw_counter_offset = 0
    /\ program_counter_offset = 0
    /\ stack_pointer_offset = 0
    /\ log_index_offset = 0
    /\ rw_table = {}
    /\ reversion_info = None
    /\ call = NoCall
    /\ ret = NoRet
    /\ log = <<>>

\* One call of constrain_execution_state_transition on the pair (curr, next).
ConstrainExecutionStateTransition ==
    /\ ret = NoRet
    /\ call' = [op |-> "constrain_execution_state_transition"]
    /\ ret' = constrain_execution_state_transition(curr.execution_state,
                                                   next.execution_state)
    /\ UNCHANGED <<curr, next, offsets, rw_table, reversion_info, log,
                   steps, elsewhere>>

\* The trace verifier moves to the next pair of steps once the pair at hand
\* was accepted: next becomes curr, under a fresh Instruction.
NextStep ==
    /\ call.op = "constrain_execution_state_transition"
    /\ ret.status = "ok"
    /\ Len(steps) < MaxSteps
    /\ \E n \in ExecutionStates : next' = StepState(n)
    /\ curr' = next
    /\ steps' = Append(steps, next.execution_state)
    /\ call' = NoCall
    /\ ret' = NoRet
    /\ UNCHANGED <<offsets, rw_table, reversion_info, log, elsewhere>>

NextExec == ConstrainExecutionStateTransition \/ NextStep

SpecExec == InitExec /\ [][NextExec]_vars

(***************************************************************************)
(* The RW table and the lookups of one Instruction.                        *)
(***************************************************************************)

\* The key and value columns of a row of the RW table.
RWFields ==
    {"rw_counter", "rw", "tag", "id", "address", "field_tag", "storage_key",
     "value", "value_prev", "aux0"}

\* RWTableTag.write_with_reversion: the tags whose writes are reversible.
write_with_reversion(tag) ==
    tag \in {"TxAccessListAccount", "TxAccessListAccountStorage", "TxRefund",
             "Account", "AccountStorage"}

\* A row matches a query when it agrees with every column the query gives.
Matches(row, query) ==
    \A f \in RWFields : query[f] = None \/ query[f][1] = row[f]

\* The state one operation threads through its calls: the Instruction's
\* offsets, the ReversionInfo object, the default Transition objects, the
\* lookups issued so far, and the status and value of the call that returned
\* last.
Ctx ==
    [rw_counter_offset |-> rw_counter_offset,
     program_counter_offset |-> program_counter_offset,
     stack_pointer_offset |-> stack_pointer_offset,
     log_index_offset |-> log_index_offset,
     reversion_info |-> reversion_info,
     default_transitions |-> default_transitions,
     log |-> log, status |-> "ok", val |-> None]

\* Tables.rw_lookup: the unique row of the RW table matching the query, or a
\* failure of the step. The query is logged with the site that issued it.
tables_rw_lookup(ctx, site, query) ==
    LET matched == {r \in rw_table : Matches(r, query)}
        found == Cardinality(matched) = 1
        row == IF found THEN Some(CHOOSE r \in matched : TRUE) ELSE None
    IN  [ctx EXCEPT
            !.log = Append(@, [ev |-> "rw_lookup", site |-> site,
                               query |-> query, row |-> row]),
            !.status = IF found THEN "ok" ELSE "LookupUnsatFailure",
            !.val = row]

\* A query for the columns an operation passes on (q gives the optional ones).
RWQuery(rw_counter, rw, tag, q) ==
    [rw_counter |-> Some(rw_counter), rw |-> Some(rw), tag |-> Some(tag),
     id |-> q.id, address |-> q.address, field_tag |-> q.field_tag,
     storage_key |-> q.storage_key, value |-> q.value,
     value_prev |-> q.value_prev, aux0 |-> q.aux0]

\* Optional columns all left out.
NoKeys ==
    [id |-> None, address |-> None, field_tag |-> None, storage_key |-> None,
     value |-> None, value_prev |-> None, aux0 |-> None]

\* rw_lookup addressing the row of the offset after its increment.
rw_lookup_CursorAhead(ctx, rw, tag, q, rw_counter) ==
    IF rw_counter = None
    THEN tables_rw_lookup(
             [ctx EXCEPT !.rw_counter_offset = @ + 1], "rw_lookup",
             RWQuery(curr.rw_counter + ctx.rw_counter_offset + 1, rw, tag, q))
    ELSE tables_rw_lookup(ctx, "rw_lookup", RWQuery(rw_counter[1], rw, tag, q))

\* Instruction.rw_lookup: without an explicit rw_counter the lookup addresses
\* row curr.rw_counter + rw_counter_offset and advances the offset, before
\* the table is asked.
rw_lookup(ctx, rw, tag, q, rw_counter) ==
    IF rw_counter = None
    THEN tables_rw_lookup(
             [ctx EXCEPT !.rw_counter_offset = @ + 1], "rw_lookup",
             RWQuery(curr.rw_counter + ctx.rw_counter_offset, rw, tag, q))
    ELSE tables_rw_lookup(ctx, "rw_lookup", RWQuery(rw_counter[1], rw, tag, q))

\* rw_counter_of_reversion returning the counter after its increment.
rw_counter_of_reversion_PostIncrement(ctx) ==
    LET ri == ctx.reversion_info[1]
        v == ri.rw_counter_end_of_reversion - (ri.reversible_write_counter + 1)
    IN  [ctx EXCEPT
            !.reversion_info =
                Some([ri EXCEPT !.reversible_write_counter = @ + 1]),
            !.log = Append(@, [ev |-> "rw_counter_of_reversion", value |-> v]),
            !.val = v]

\* rw_counter_of_reversion counting upwards from the end of reversion.
rw_counter_of_reversion_Ascending(ctx) ==
    LET ri == ctx.reversion_info[1]
        v == ri.rw_counter_end_of_reversion + ri.reversible_write_counter
    IN  [ctx EXCEPT
            !.reversion_info =
                Some([ri EXCEPT !.reversible_write_counter = @ + 1]),
            !.log = Append(@, [ev |-> "rw_counter_of_reversion", value |-> v]),
            !.val = v]

\* ReversionInfo.rw_counter_of_reversion: the end of reversion less the writes
\* counted so far; the call counts one more write.
rw_counter_of_reversion(ctx) ==
    LET ri == ctx.reversion_info[1]
        v == ri.rw_counter_end_of_reversion - ri.reversible_write_counter
    IN  [ctx EXCEPT
            !.reversion_info =
                Some([ri EXCEPT !.reversible_write_counter = @ + 1]),
            !.log = Append(@, [ev |-> "rw_counter_of_reversion", value |-> v]),
            !.val = v]

\* MirrorQuery passing value and value_prev on as they are.
MirrorQuery_NoSwap(rw_counter, tag, row) ==
    [rw_counter |-> Some(rw_counter), rw |-> Some("Write"), tag |-> Some(tag),
     id |-> Some(row.id), address |-> Some(row.address),
     field_tag |-> Some(row.field_tag), storage_key |-> Some(row.storage_key),
     value |-> Some(row.value), value_prev |-> Some(row.value_prev),
     aux0 |-> Some(row.aux0)]

\* The query of state_write's second lookup: the row just written, at the
\* reversion counter, with value and value_prev swapped.
MirrorQuery(rw_counter, tag, row) ==
    [rw_counter |-> Some(rw_counter), rw |-> Some("Write"), tag |-> Some(tag),
     id |-> Some(row.id), address |-> Some(row.address),
     field_tag |-> Some(row.field_tag), storage_key |-> Some(row.storage_key),
     value |-> Some(row.value_prev), value_prev |-> Some(row.value),
     aux0 |-> Some(row.aux0)]

\* state_write with the mirror row addressed through the cursor of the step.
state_write_MirrorConsumesCursor(ctx, tag, q, with_info) ==
    IF ~write_with_reversion(tag)
    THEN [ctx EXCEPT !.status = "AssertionError", !.val = None]
    ELSE
    LET c1 == rw_lookup(ctx, "Write", tag, q, None)
    IN  IF c1.status # "ok" THEN c1
        ELSE IF with_info /\ c1.reversion_info[1].is_persistent = 0
        THEN LET c2 == rw_counter_of_reversion(c1)
                 c3 == tables_rw_lookup(
                           [c2 EXCEPT !.rw_counter_offset = @ + 1],
                           "state_write", MirrorQuery(c2.val, tag, c1.val[1]))
             IN  IF c3.status = "ok" THEN [c3 EXCEPT !.val = c1.val] ELSE c3
        ELSE c1

\* state_write counting a reversible write for a persistent call as well,
\* without a mirror row.
state_write_CountedWhenPersistent(ctx, tag, q, with_info) ==
    IF ~write_with_reversion(tag)
    THEN [ctx EXCEPT !.status = "AssertionError", !.val = None]
    ELSE
    LET c1 == rw_lookup(ctx, "Write", tag, q, None)
    IN  IF c1.status # "ok" THEN c1
        ELSE IF with_info /\ c1.reversion_info[1].is_persistent = 0
        THEN LET c2 == rw_counter_of_reversion(c1)
                 c3 == tables_rw_lookup(c2, "state_write",
                                        MirrorQuery(c2.val, tag, c1.val[1]))
             IN  IF c3.status = "ok" THEN [c3 EXCEPT !.val = c1.val] ELSE c3
        ELSE IF with_info
        THEN [rw_counter_of_reversion(c1) EXCEPT !.val = c1.val]
        ELSE c1

\* Instruction.state_write. with_info tells whether the ReversionInfo object
\* is passed as the reversion_info argument.
state_write(ctx, tag, q, with_info) ==
    IF ~write_with_reversion(tag)
    THEN [ctx EXCEPT !.status = "AssertionError", !.val = None]
    ELSE
    LET c1 == rw_lookup(ctx, "Write", tag, q, None)
    IN  IF c1.status # "ok" THEN c1
        ELSE IF with_info /\ c1.reversion_info[1].is_persistent = 0
        THEN LET c2 == rw_counter_of_reversion(c1)
                 c3 == tables_rw_lookup(c2, "state_write",
                                        MirrorQuery(c2.val, tag, c1.val[1]))
             IN  IF c3.status = "ok" THEN [c3 EXCEPT !.val = c1.val] ELSE c3
        ELSE c1

\* The outcome an operation leaves behind.
RetOf(ctx) == IF ctx.status = "ok" THEN Ok(ctx.val) ELSE Raise(ctx.status)

(***************************************************************************)
(* Specification SpecRev: reversible writes of one step.                   *)
(***************************************************************************)

\* Most operations one step performs in SpecRev.
MaxWrites == 2

\* curr.rw_counter of the step (the RW dictionary of the tests starts at 9).
BaseRwCounter == 9

\* rw_counter_end_of_reversion of the call.
EndOfReversion == 30

\* The k-th row the step writes (k from 0), with the given value pair.
PrimaryRow(k, tag, vals) ==
    [rw_counter |-> BaseRwCounter + k, rw |-> "Write", tag |-> tag, id |-> 1,
     address |-> 254 + k, field_tag |-> 2, storage_key |-> 0,
     value |-> vals[1], value_prev |-> vals[2], aux0 |-> 0]

\* What the table holds at the reversion counter for the row: its mirror
\* image, a copy with the values not swapped, or nothing.
MirrorRows(row, rw_counter, mode) ==
    CASE mode = "swapped" ->
            {[row EXCEPT !.rw_counter = rw_counter, !.value = row.value_prev,
                         !.value_prev = row.value]}
      [] mode = "unswapped" -> {[row EXCEPT !.rw_counter = rw_counter]}
      [] OTHER -> {}

ValuePairs == {<<1, 0>>, <<5, 3>>}

MirrorModes == {"swapped", "unswapped", "absent"}

TableTags == {"Account", "TxAccessListAccount"}

\* The ReversionInfo objects of SpecRev: none, or one for a call that is
\* persistent or not and has counted c0 reversible writes already.
ReversionInfos ==
    {None} \cup
    {Some([rw_counter_end_of_reversion |-> EndOfReversion,
           is_persistent |-> p, reversible_write_counter |-> c0]) :
        p \in {0, 1}, c0 \in {0, 1}}

InitRev ==
    /\ curr = [StepState("GASPRICE") EXCEPT
                  !.rw_counter = BaseRwCounter, !.call_id = 1, !.is_root = 1]
    /\ next = StepState("STOP")
    /\ rw_counter_offset = 0
    /\ program_counter_offset = 0
    /\ stack_pointer_offset = 0
    /\ log_index_offset = 0
    /\ reversion_info \in ReversionInfos
    /\ \E tag \in TableTags,
          vals \in [0 .. MaxWrites - 1 -> ValuePairs],
          modes \in [0 .. MaxWrites - 1 -> MirrorModes] :
          LET c0 == IF reversion_info = None THEN 0
                    ELSE reversion_info[1].reversible_write_counter
          IN  rw_table =
                UNION {{PrimaryRow(k, tag, vals[k])} \cup
                       MirrorRows(PrimaryRow(k, tag, vals[k]),
                                  EndOfReversion - (c0 + k), modes[k]) :
                       k \in 0 .. MaxWrites - 1}
    /\ call = NoCall
    /\ ret = NoRet
    /\ log = IF reversion_info = None THEN <<>>
             ELSE <<[ev |-> "ReversionInfo", info |-> reversion_info[1]]>>
    /\ steps = <<"GASPRICE">>
    /\ default_transitions = DefaultTransitions
    /\ suspended = None

\* The ways the callers in the library fill state_write's arguments.
WriteArgs ==
    {[tag |-> "Account",
      q |-> [NoKeys EXCEPT !.field_tag = Some(2)]],
     [tag |-> "TxAccessListAccount",
      q |-> [NoKeys EXCEPT !.id = Some(1), !.value = Some(1)]],
     [tag |-> "Stack",
      q |-> [NoKeys EXCEPT !.id = Some(1)]]}

\* Operations invoked so far in this step.
NumCalls == Cardinality({i \in DOMAIN log : log[i].ev = "call"})

\* An operation may start while the step has not failed.
Running == ret.status \in {"none", "ok"}

\* One call of state_write, with or without the reversion_info argument.
StateWrite ==
    /\ Running
    /\ NumCalls < MaxWrites
    /\ \E a \in WriteArgs, with_info \in BOOLEAN :
          /\ with_info => reversion_info # None
          /\ LET c0 == [Ctx EXCEPT
                           !.log = Append(@, [ev |-> "call", op |-> "state_write",
                                              with_info |-> with_info])]
                 c == state_write(c0, a.tag, a.q, with_info)
             IN  /\ call' = [op |-> "state_write", tag |-> a.tag, q |-> a.q,
                             with_info |-> with_info, log_at |-> Len(log) + 1]
                 /\ ret' = RetOf(c)
                 /\ rw_counter_offset' = c.rw_counter_offset
                 /\ reversion_info' = c.reversion_info
                 /\ log' = c.log
    /\ UNCHANGED <<curr, next, program_counter_offset, stack_pointer_offset,
                   log_index_offset, rw_table, steps, elsewhere>>

\* One direct call of rw_counter_of_reversion on the ReversionInfo object.
RwCounterOfReversion ==
    /\ Running
    /\ NumCalls < MaxWrites
    /\ reversion_info # None
    /\ LET c0 == [Ctx EXCEPT
                     !.log = Append(@, [ev |-> "call",
                                        op |-> "rw_counter_of_reversion",
                                        with_info |-> TRUE])]
           c == rw_counter_of_reversion(c0)
       IN  /\ call' = [op |-> "rw_counter_of_reversion", log_at |-> Len(log) + 1]
           /\ ret' = RetOf(c)
           /\ reversion_info' = c.reversion_info
           /\ log' = c.log
    /\ UNCHANGED <<curr, next, offsets, rw_table, steps, elsewhere>>

NextRev == StateWrite \/ RwCounterOfReversion

SpecRev == InitRev /\ [][NextRev]_vars

(***************************************************************************)
(* Step-state transitions.                                                 *)
(***************************************************************************)

\* The fields constrain_step_state_transition accepts as keyword arguments.
TransitionKeys ==
    {"rw_counter", "call_id", "is_root", "is_create", "code_hash",
     "program_counter", "stack_pointer", "gas_left", "memory_word_size",
     "reversible_write_counter", "log_id"}

\* Transition.same
Same == [kind |-> "Same", value |-> 0]

\* Transition.same_word
SameWord == [kind |-> "SameWord", value |-> 0]

\* Transition.delta
Delta(v) == [kind |-> "Delta", value |-> v]

\* Transition.to
To(v) == [kind |-> "To", value |-> v]

\* Transition.to_word
ToWord(w) == [kind |-> "ToWord", value |-> w]

\* TransitionHolds with Delta compared as if it were To.
TransitionHolds_DeltaAsTo(t, c, n) ==
    CASE t.kind = "Same" -> n = c
      [] t.kind = "SameWord" -> n.lo = c.lo /\ n.hi = c.hi
      [] t.kind = "Delta" -> n = t.value
      [] t.kind = "To" -> n = t.value
      [] t.kind = "ToWord" -> n.lo = t.value.lo /\ n.hi = t.value.hi

\* The assert of one transition t on a field whose value is c in curr and n
\* in next.
TransitionHolds(t, c, n) ==
    CASE t.kind = "Same" -> n = c
      [] t.kind = "SameWord" -> n.lo = c.lo /\ n.hi = c.hi
      [] t.kind = "Delta" -> n = c + t.value
      [] t.kind = "To" -> n = t.value
      [] t.kind = "ToWord" -> n.lo = t.value.lo /\ n.hi = t.value.hi

\* A keyword argument that is left out: the default object of the key.
DefaultOf(key) == [kind |-> "Default", value |-> key]

\* The Transition object an argument stands for.
Deref(ctx, t) ==
    IF t.kind = "Default" THEN ctx.default_transitions[t.value] ELSE t

\* The order in which step_state_transition_in_same_context, the caller that
\* passes default objects on, lists the keyword arguments; the loop of
\* constrain_step_state_transition follows it.
KeywordOrder ==
    <<"rw_counter", "program_counter", "stack_pointer", "gas_left",
      "memory_word_size", "reversible_write_counter", "log_id", "call_id",
      "is_root", "is_create", "code_hash">>

\* The place of the key in KeywordOrder.
KeywordIndex(key) == CHOOSE i \in DOMAIN KeywordOrder : KeywordOrder[i] = key

\* Instruction.constrain_step_state_transition. kwargs maps the keys given to
\* their transitions; the first assert that fails ends the call. Before its
\* assert, each iteration of the loop assigns FQ(value) to the value of its
\* transition if that is an int: the iterations reached are those of the
\* keys before which no assert failed. The assignment to an object built for
\* the call is lost with the object; the one to a default object stays.
constrain_step_state_transition(ctx, kwargs) ==
    IF ~(DOMAIN kwargs \subseteq TransitionKeys)
    THEN [ctx EXCEPT !.status = "AssertionError", !.val = None]
    ELSE
    LET holds(key) ==
            TransitionHolds(Deref(ctx, kwargs[key]), curr[key], next[key])
        reached(key) ==
            \A other \in DOMAIN kwargs :
                KeywordIndex(other) < KeywordIndex(key) => holds(other)
        assigned ==
            {kwargs[key].value : key \in
                {k \in DOMAIN kwargs :
                    /\ kwargs[k].kind = "Default"
                    /\ reached(k)
                    /\ ctx.default_transitions[kwargs[k].value].value.type
                           = "int"}}
        after ==
            [d \in DOMAIN ctx.default_transitions |->
                IF d \in assigned
                THEN [ctx.default_transitions[d] EXCEPT
                         !.value = FQValue(@.n)]
                ELSE ctx.default_transitions[d]]
    IN  [ctx EXCEPT
            !.default_transitions = after,
            !.status = IF \A key \in DOMAIN kwargs : holds(key)
                       THEN "ok" ELSE "AssertionError",
            !.val = None]

(***************************************************************************)
(* Specification SpecTrans: one call of constrain_step_state_transition.   *)
(***************************************************************************)

\* Most keyword arguments one call is given in SpecTrans.
MaxKwargs == 2

\* Code hashes (lo, hi) of two bytecodes.
CodeHashes == {[lo |-> 7, hi |-> 8], [lo |-> 7, hi |-> 9]}

\* The transitions SpecTrans passes for a key. "gas" is no field of the step.
TransitionPool(key) ==
    CASE key = "gas_left" -> <<Same, Delta(-2), Delta(1), To(0), To(2)>>
      [] key = "program_counter" -> <<Same, Delta(1), To(1)>>
      [] key = "code_hash" -> <<SameWord, ToWord([lo |-> 7, hi |-> 9])>>
      [] key = "call_id" -> <<Same, To(0)>>
      [] key = "gas" -> <<Same>>

PoolKeys == {"gas_left", "program_counter", "code_hash", "call_id", "gas"}

InitTrans ==
    /\ \E g \in 2 .. 3 :
          curr = [StepState("GASPRICE") EXCEPT
                     !.rw_counter = BaseRwCounter, !.call_id = 1, !.is_root = 1,
                     !.code_hash = [lo |-> 7, hi |-> 8], !.gas_left = g]
    /\ \E g \in 0 .. 2, pc \in 0 .. 1, h \in CodeHashes, id \in 0 .. 1 :
          next = [StepState("STOP") EXCEPT
                     !.rw_counter = BaseRwCounter + 2, !.call_id = id,
                     !.is_root = 1, !.code_hash = h, !.program_counter = pc,
                     !.stack_pointer = 1023, !.gas_left = g]
    /\ rw_counter_offset = 0
    /\ program_counter_offset = 0
    /\ stack_pointer_offset = 0
    /\ log_index_offset = 0
    /\ rw_table = {}
    /\ reversion_info = None
    /\ call = NoCall
    /\ ret = NoRet
    /\ log = <<>>
    /\ steps = <<"GASPRICE">>
    /\ default_transitions = DefaultTransitions
    /\ suspended = None

\* One call of constrain_step_state_transition with up to MaxKwargs keys.
ConstrainStepStateTransition ==
    /\ ret = NoRet
    /\ \E keys \in SUBSET PoolKeys :
          /\ keys # {}
          /\ Cardinality(keys) <= MaxKwargs
          /\ \E pick \in [keys -> 1 .. 5] :
                /\ \A k \in keys : pick[k] <= Len(TransitionPool(k))
                /\ LET kwargs == [k \in keys |-> TransitionPool(k)[pick[k]]]
                   IN  /\ call' = [op |-> "constrain_step_state_transition",
                                   kwargs |-> kwargs, log_at |-> Len(log)]
                       /\ ret' = RetOf(constrain_step_state_transition(
                                           Ctx, kwargs))
    /\ UNCHANGED <<curr, next, offsets, rw_table, reversion_info, log,
                   steps, elsewhere>>

NextTrans == ConstrainStepStateTransition

SpecTrans == InitTrans /\ [][NextTrans]_vars

(***************************************************************************)
(* Unbounded naturals and the field FQ.                                    *)
(*                                                                         *)
(* A natural number is the sequence of its base-256 digits, least          *)
(* significant first and without a leading zero digit (zero is <<>>), so   *)
(* that its length is the number of bytes int.to_bytes needs for it and    *)
(* two numbers are equal exactly when their sequences are.                 *)
(***************************************************************************)

Base == 256

\* F at the value of x, x being computed once: Python computes an argument
\* or a local variable before it is used.
Bind(x, F(_)) == CHOOSE r \in {F(v) : v \in {x}} : TRUE

\* F at the values of x and y.
Bind2(x, y, F(_, _)) == CHOOSE r \in {F(v, w) : v \in {x}, w \in {y}} : TRUE

Max(S) == CHOOSE x \in S : \A y \in S : y <= x

Digit(s, i) == IF i <= Len(s) THEN s[i] ELSE 0

\* Drops the zero digits at the most significant end.
Trim(s) ==
    Bind({i \in 1 .. Len(s) : s[i] # 0},
         LAMBDA nz : IF nz = {} THEN <<>> ELSE SubSeq(s, 1, Max(nz)))

RECURSIVE Carries(_, _, _, _)
\* The digits of columns lo .. hi of cols (any integers) once the carry
\* coming in from below is added and the carries are moved up, and the
\* carry going out. The range is halved rather than walked.
Carries(cols, lo, hi, carry) ==
    IF lo > hi THEN [digits |-> <<>>, carry |-> carry]
    ELSE IF lo = hi
    THEN Bind(cols[lo] + carry,
              LAMBDA v : [digits |-> <<v % Base>>, carry |-> v \div Base])
    ELSE Bind(Carries(cols, lo, (lo + hi) \div 2, carry),
              LAMBDA low :
                  Bind(Carries(cols, (lo + hi) \div 2 + 1, hi, low.carry),
                       LAMBDA high : [digits |-> low.digits \o high.digits,
                                      carry |-> high.carry]))

RECURSIVE Big(_)
\* The number n, given as an integer of the model.
Big(n) == IF n = 0 THEN <<>> ELSE <<n % Base>> \o Big(n \div Base)

\* The number whose i-th column holds cols[i].
Propagate(cols) ==
    Bind(cols, LAMBDA cs :
        Bind(Carries(cs, 1, Len(cs), 0),
             LAMBDA c : Trim(c.digits \o Big(c.carry))))

BigAdd(x, y) ==
    Bind2(x, y, LAMBDA a, b :
        Propagate([i \in 1 .. (IF Len(a) > Len(b) THEN Len(a) ELSE Len(b)) |->
                       Digit(a, i) + Digit(b, i)]))

\* x - y, for x >= y.
BigSub(x, y) ==
    Bind2(x, y, LAMBDA a, b :
        Propagate([i \in 1 .. Len(a) |-> a[i] - Digit(b, i)]))

RECURSIVE Column(_, _, _, _, _)
\* The sum of a[i] * b[k + 1 - i] over the i in lo .. hi.
Column(a, b, k, lo, hi) ==
    IF lo > hi THEN 0
    ELSE IF lo = hi THEN a[lo] * b[k + 1 - lo]
    ELSE Column(a, b, k, lo, (lo + hi) \div 2)
         + Column(a, b, k, (lo + hi) \div 2 + 1, hi)

BigMul(x, y) ==
    Bind2(x, y, LAMBDA a, b :
        IF a = <<>> \/ b = <<>> THEN <<>>
        ELSE Propagate([k \in 1 .. Len(a) + Len(b) - 1 |->
                 Column(a, b, k, IF k > Len(b) THEN k + 1 - Len(b) ELSE 1,
                        IF k > Len(a) THEN Len(a) ELSE k)]))

BigLt(x, y) ==
    Bind2(x, y, LAMBDA a, b :
        IF Len(a) # Len(b) THEN Len(a) < Len(b)
        ELSE Bind({i \in 1 .. Len(a) : a[i] # b[i]},
                  LAMBDA d : d # {} /\ a[Max(d)] < b[Max(d)]))

\* x mod 256^k
LowBytes(x, k) ==
    Bind(x, LAMBDA a : Trim(SubSeq(a, 1, IF k < Len(a) THEN k ELSE Len(a))))

\* x div 256^k
HighBytes(x, k) ==
    Bind(x, LAMBDA a : IF Len(a) <= k THEN <<>> ELSE SubSeq(a, k + 1, Len(a)))

\* x * 256^k
ShiftBytes(x, k) ==
    Bind(x, LAMBDA a : IF a = <<>> THEN <<>> ELSE [i \in 1 .. k |-> 0] \o a)

\* FQ.field_modulus, the order of the BN254 curve:
\* 21888242871839275222246405745257275088548364400416034343698204186575808495617
FieldModulus ==
    <<1, 0, 0, 240, 147, 245, 225, 67, 145, 112, 185, 121, 72, 232, 51, 40,
      93, 88, 129, 129, 182, 69, 80, 184, 41, 160, 49, 225, 114, 78, 100, 48>>

\* -(1 / FieldModulus) mod 2^256; its k low bytes are the same mod 256^k.
NegInvModulus ==
    <<255, 255, 255, 239, 147, 245, 225, 194, 179, 17, 105, 76, 75, 134, 134,
      101, 145, 35, 6, 153, 40, 152, 154, 227, 178, 65, 131, 13, 29, 47, 248,
      115>>

\* 2^512 mod FieldModulus
R2ModModulus ==
    <<167, 109, 33, 174, 69, 230, 184, 27, 227, 89, 92, 227, 177, 58, 254, 83,
      133, 128, 187, 83, 61, 131, 73, 140, 165, 68, 78, 127, 177, 208, 22, 2>>

\* The field element t / 256^k, for t < 256^k * FieldModulus: with
\* m = -t / FieldModulus mod 256^k the sum t + m * FieldModulus is a
\* multiple of 256^k, and its quotient is below 2 * FieldModulus.
Redc(t, k) ==
    Bind(t, LAMBDA tv :
        Bind(HighBytes(
                 BigAdd(tv, BigMul(LowBytes(BigMul(LowBytes(tv, k),
                                                   LowBytes(NegInvModulus, k)),
                                            k),
                                   FieldModulus)),
                 k),
             LAMBDA q : IF BigLt(q, FieldModulus) THEN q
                        ELSE BigSub(q, FieldModulus)))

\* FQ(x): x mod FieldModulus, for x < 2^256 * FieldModulus.
FQ(x) ==
    Bind(x, LAMBDA v :
        IF BigLt(v, FieldModulus) THEN v
        ELSE Redc(BigMul(Redc(v, 32), R2ModModulus), 32))

\* FQ.__add__
FQAdd(x, y) ==
    Bind(BigAdd(x, y),
         LAMBDA s : IF BigLt(s, FieldModulus) THEN s
                    ELSE BigSub(s, FieldModulus))

\* FQ.__sub__
FQSub(x, y) ==
    Bind2(x, y, LAMBDA a, b :
        IF BigLt(a, b) THEN BigSub(BigAdd(a, FieldModulus), b)
        ELSE BigSub(a, b))

\* FQ.__mul__
FQMul(x, y) == FQ(BigMul(x, y))

\* FQ.__truediv__ by the integer 2^(8 * k)
FQDivPow(x, k) == Redc(x, k)

(***************************************************************************)
(* Words and the multiply-add gadget.                                      *)
(***************************************************************************)

\* util.MAX_N_BYTES: the bytes a field element can be composed from.
MAX_N_BYTES == 31

\* A Word: the field elements lo and hi, each below 2^128.
Word(lo, hi) == [lo |-> lo, hi |-> hi]

\* Word(x) for the integer x < 2^256.
WordOf(x) == Bind(x, LAMBDA v : Word(LowBytes(v, 16), HighBytes(v, 16)))

\* Word.int_value
int_value(w) == BigAdd(w.lo, ShiftBytes(w.hi, 16))

\* Word.to_64s: the four 64-bit limbs, least significant first.
to_64s(w) ==
    Bind(w, LAMBDA v :
        <<LowBytes(v.lo, 8), HighBytes(v.lo, 8),
          LowBytes(v.hi, 8), HighBytes(v.hi, 8)>>)

\* Word.to_lo_hi
to_lo_hi(w) == Bind(w, LAMBDA v : <<v.lo, v.hi>>)

\* range_check with the overflow of to_bytes let through.
range_check_Unchecked(value, n_bytes) ==
    Bind(value, LAMBDA v :
        IF n_bytes > MAX_N_BYTES THEN Raise("AssertionError")
        ELSE IF Len(v) > n_bytes THEN Ok(v)
        ELSE Ok(v \o [i \in 1 .. n_bytes - Len(v) |-> 0]))

\* Instruction.range_check: the n_bytes little-endian bytes of the value.
range_check(value, n_bytes) ==
    Bind(value, LAMBDA v :
        IF n_bytes > MAX_N_BYTES THEN Raise("AssertionError")
        ELSE IF Len(v) > n_bytes THEN Raise("ConstraintUnsatFailure")
        ELSE Ok(v \o [i \in 1 .. n_bytes - Len(v) |-> 0]))

\* Instruction.constrain_equal
constrain_equal(lhs, rhs) ==
    IF lhs = rhs THEN Ok(None) ELSE Raise("AssertionError")

\* 2 ** 64
Pow64 == <<0, 0, 0, 0, 0, 0, 0, 0, 1>>

\* 2 ** 128
Pow128 == <<0, 0, 0, 0, 0, 0, 0, 0, 0, 0, 0, 0, 0, 0, 0, 0, 1>>

\* The status of the first check that failed, or the value if none did.
FirstFailure(checks, value) ==
    Bind({i \in 1 .. Len(checks) : checks[i].status # "ok"},
         LAMBDA failed :
             IF failed = {} THEN Ok(value)
             ELSE Raise(checks[CHOOSE i \in failed :
                                   \A j \in failed : i <= j].status))

\* Instruction.mul_add_words: the overflow it returns, or the failure of the
\* first check that does not hold.
mul_add_words(a, b, c, d) ==
    Bind2(to_64s(a), to_64s(b), LAMBDA a64s, b64s :
    Bind2(to_lo_hi(c), to_lo_hi(d), LAMBDA c_lo_hi, d_lo_hi :
    Bind2(FQMul(a64s[1], b64s[1]),
          FQAdd(FQMul(a64s[1], b64s[2]), FQMul(a64s[2], b64s[1])),
          LAMBDA t0, t1 :
    Bind2(FQAdd(FQAdd(FQMul(a64s[1], b64s[3]), FQMul(a64s[2], b64s[2])),
                FQMul(a64s[3], b64s[1])),
          FQAdd(FQAdd(FQAdd(FQMul(a64s[1], b64s[4]), FQMul(a64s[2], b64s[3])),
                      FQMul(a64s[3], b64s[2])),
                FQMul(a64s[4], b64s[1])),
          LAMBDA t2, t3 :
    Bind(FQDivPow(FQSub(FQAdd(FQAdd(t0, FQMul(t1, Pow64)), c_lo_hi[1]),
                        d_lo_hi[1]), 16),
         LAMBDA carry_lo :
    Bind(FQDivPow(FQSub(FQAdd(FQAdd(FQAdd(t2, FQMul(t3, Pow64)), c_lo_hi[2]),
                              carry_lo),
                        d_lo_hi[2]), 16),
         LAMBDA carry_hi :
    Bind(FQAdd(FQAdd(FQAdd(FQAdd(FQAdd(FQAdd(carry_hi,
             FQMul(a64s[2], b64s[4])), FQMul(a64s[3], b64s[3])),
             FQMul(a64s[4], b64s[2])), FQMul(a64s[3], b64s[4])),
             FQMul(a64s[4], b64s[3])), FQMul(a64s[4], b64s[4])),
         LAMBDA overflow :
    FirstFailure(
        <<range_check(carry_lo, 9),
          range_check(carry_hi, 9),
          constrain_equal(FQAdd(FQAdd(t0, FQMul(t1, Pow64)), c_lo_hi[1]),
                          FQAdd(d_lo_hi[1], FQMul(carry_lo, Pow128))),
          constrain_equal(FQAdd(FQAdd(FQAdd(t2, FQMul(t3, Pow64)), c_lo_hi[2]),
                                carry_lo),
                          FQAdd(d_lo_hi[2], FQMul(carry_hi, Pow128)))>>,
        overflow))))))))

(***************************************************************************)
(* Specification SpecMul: one call of mul_add_words on sample words.       *)
(***************************************************************************)

\* How many of the sample words a and b range over.
MaxMulSamples == 4

\* The limb 2^64 - 1.
MaxLimb == [i \in 1 .. 8 |-> 255]

\* The word of four 64-bit limbs, least significant first.
WordOfLimbs(l0, l1, l2, l3) ==
    Word(BigAdd(l0, ShiftBytes(l1, 8)), BigAdd(l2, ShiftBytes(l3, 8)))

\* 1, 2^192, 2^256 - 1, 3 + 2^128 + 2^193, 2^64 - 1 + 2^64, 0, 2^128.
SampleWords ==
    <<WordOfLimbs(<<1>>, <<>>, <<>>, <<>>),
      WordOfLimbs(<<>>, <<>>, <<>>, <<1>>),
      WordOfLimbs(MaxLimb, MaxLimb, MaxLimb, MaxLimb),
      WordOfLimbs(<<3>>, <<>>, <<1>>, <<2>>),
      WordOfLimbs(MaxLimb, <<1>>, <<>>, <<>>),
      WordOfLimbs(<<>>, <<>>, <<>>, <<>>),
      WordOfLimbs(<<>>, <<>>, <<1>>, <<>>)>>

\* (a * b + c) mod 2^256 as a word.
MulAddLow(a, b, c) ==
    WordOf(LowBytes(BigAdd(BigMul(int_value(a), int_value(b)), int_value(c)),
                    32))

\* The words SpecMul passes as d: the low 256 bits of a * b + c, that word
\* with one added to its low or to its high half (mod 2^128), and zero.
ResultWords(a, b, c) ==
    LET r == MulAddLow(a, b, c)
    IN  {r, Word(LowBytes(BigAdd(r.lo, <<1>>), 16), r.hi),
         Word(r.lo, LowBytes(BigAdd(r.hi, <<1>>), 16)), Word(<<>>, <<>>)}

InitMul ==
    /\ curr = StepState("GASPRICE")
    /\ next = StepState("STOP")
    /\ rw_counter_offset = 0
    /\ program_counter_offset = 0
    /\ stack_pointer_offset = 0
    /\ log_index_offset = 0
    /\ rw_table = {}
    /\ reversion_info = None
    /\ call = NoCall
    /\ ret = NoRet
    /\ log = <<>>
    /\ steps = <<"GASPRICE">>
    /\ default_transitions = DefaultTransitions
    /\ suspended = None

\* One call of mul_add_words.
MulAddWords ==
    /\ ret = NoRet
    /\ \E i \in 1 .. MaxMulSamples, j \in 1 .. MaxMulSamples, k \in {1, 3, 6} :
          \E d \in ResultWords(SampleWords[i], SampleWords[j], SampleWords[k]) :
             /\ i <= Len(SampleWords)
             /\ j <= Len(SampleWords)
             /\ call' = [op |-> "mul_add_words", a |-> SampleWords[i],
                         b |-> SampleWords[j], c |-> SampleWords[k], d |-> d,
                         log_at |-> Len(log)]
             /\ ret' = mul_add_words(SampleWords[i], SampleWords[j],
                                     SampleWords[k], d)
    /\ UNCHANGED <<curr, next, offsets, rw_table, reversion_info, log,
                   steps, elsewhere>>

NextMul == MulAddWords

SpecMul == InitMul /\ [][NextMul]_vars

(***************************************************************************)
(* Same-context continuation.                                              *)
(***************************************************************************)

\* util.N_BYTES_GAS
N_BYTES_GAS == 8

\* Opcode.GASPRICE and Opcode.STOP
OpGASPRICE == 58

OpSTOP == 0

\* FQ(x) for an integer of the model, -k standing for FieldModulus - k.
FQInt(x) == IF x >= 0 THEN Big(x) ELSE BigSub(FieldModulus, Big(0 - x))

\* The rows of the fixed table under FixedTableTag.ResponsibleOpcode:
\* execution state, opcode, aux.
ResponsibleOpcodeRows ==
    {<<"GASPRICE", OpGASPRICE, 0>>, <<"STOP", OpSTOP, 0>>}

\* Opcode.constant_gas_cost
constant_gas_cost(opcode) == IF opcode = OpGASPRICE THEN 2 ELSE 0

\* Instruction.responsible_opcode_lookup (aux = 0)
responsible_opcode_lookup(ctx, opcode) ==
    [ctx EXCEPT
        !.log = Append(@, [ev |-> "fixed_lookup", tag |-> "ResponsibleOpcode",
                           values |-> <<curr.execution_state, opcode, 0>>]),
        !.status = IF <<curr.execution_state, opcode, 0>>
                          \in ResponsibleOpcodeRows
                   THEN "ok" ELSE "LookupUnsatFailure",
        !.val = None]

\* constrain_gas_left_not_underflow without its range check.
constrain_gas_left_not_underflow_Unchecked(ctx, gas_left) ==
    [ctx EXCEPT !.status = "ok", !.val = None]

\* Instruction.constrain_gas_left_not_underflow
constrain_gas_left_not_underflow(ctx, gas_left) ==
    [ctx EXCEPT !.status = range_check(FQInt(gas_left), N_BYTES_GAS).status,
                !.val = None]

\* Instruction.step_state_transition_in_same_context. given maps the keyword
\* arguments passed to their transitions.
step_state_transition_in_same_context(ctx, opcode, given, dynamic_gas_cost) ==
    LET looked == responsible_opcode_lookup(ctx, opcode)
        gas_cost == constant_gas_cost(opcode) + dynamic_gas_cost
        checked == constrain_gas_left_not_underflow(
                       looked, curr.gas_left - gas_cost)
        kwargs == [key \in TransitionKeys |->
                     CASE key = "gas_left" -> Delta(0 - gas_cost)
                       [] key \in {"call_id", "is_root", "is_create"} -> Same
                       [] key = "code_hash" -> SameWord
                       [] OTHER -> IF key \in DOMAIN given THEN given[key]
                                   ELSE DefaultOf(key)]
    IN  IF looked.status # "ok" THEN looked
        ELSE IF checked.status # "ok" THEN checked
        ELSE constrain_step_state_transition(checked, kwargs)

(***************************************************************************)
(* Specification SpecSame: one call of                                     *)
(* step_state_transition_in_same_context on the GASPRICE step of           *)
(* tests/evm/test_gasprice.py and a next step that differs from the test's *)
(* in its gas_left and in up to MaxFaults other fields.                    *)
(***************************************************************************)

MaxFaults == 1

\* The fields of the next step SpecSame alters.
FaultFields ==
    {"rw_counter", "call_id", "is_root", "is_create", "code_hash",
     "program_counter", "stack_pointer", "memory_word_size",
     "reversible_write_counter", "log_id"}

\* A value of the field other than v.
Altered(key, v) ==
    CASE key = "code_hash" -> [lo |-> v.lo, hi |-> v.hi + 1]
      [] key \in {"is_root", "is_create"} -> 1 - v
      [] OTHER -> v + 1

\* The transitions SpecSame passes for a keyword argument.
SameContextPool(key) ==
    CASE key = "rw_counter" -> Delta(2)
      [] key = "program_counter" -> Delta(1)
      [] key = "stack_pointer" -> Delta(-1)
      [] key = "log_id" -> To(0)

InitSame ==
    /\ \E g \in 1 .. 3 :
          curr = [StepState("GASPRICE") EXCEPT
                     !.rw_counter = BaseRwCounter, !.call_id = 1, !.is_root = 1,
                     !.code_hash = [lo |-> 7, hi |-> 8], !.gas_left = g]
    /\ \E g \in -1 .. 1, faults \in SUBSET FaultFields :
          /\ Cardinality(faults) <= MaxFaults
          /\ LET expected == [StepState("STOP") EXCEPT
                                 !.rw_counter = BaseRwCounter + 2,
                                 !.call_id = 1, !.is_root = 1,
                                 !.code_hash = [lo |-> 7, hi |-> 8],
                                 !.program_counter = 1,
                                 !.stack_pointer = 1023, !.gas_left = g]
             IN  next = [key \in DOMAIN expected |->
                            IF key \in faults
                            THEN Altered(key, expected[key])
                            ELSE expected[key]]
    /\ rw_counter_offset = 2
    /\ program_counter_offset = 1
    /\ stack_pointer_offset = -1
    /\ log_index_offset = 0
    /\ rw_table = {}
    /\ reversion_info = None
    /\ call = NoCall
    /\ ret = NoRet
    /\ log = <<>>
    /\ steps = <<"GASPRICE">>
    /\ default_transitions = DefaultTransitions
    /\ suspended = None

\* One call of step_state_transition_in_same_context.
StepStateTransitionInSameContext ==
    /\ ret = NoRet
    /\ \E opcode \in {OpGASPRICE, OpSTOP}, dynamic_gas_cost \in 0 .. 1,
          keys \in SUBSET {"rw_counter", "program_counter", "stack_pointer",
                           "log_id"} :
          LET given == [key \in keys |-> SameContextPool(key)]
              c == step_state_transition_in_same_context(
                       Ctx, opcode, given, dynamic_gas_cost)
          IN  /\ call' = [op |-> "step_state_transition_in_same_context",
                          opcode |-> opcode, given |-> given,
                          dynamic_gas_cost |-> dynamic_gas_cost,
                          log_at |-> Len(log)]
              /\ ret' = RetOf(c)
              /\ log' = c.log
              /\ default_transitions' = c.default_transitions
    /\ UNCHANGED <<curr, next, offsets, rw_table, reversion_info, steps,
                   suspended>>

NextSame == StepStateTransitionInSameContext

SpecSame == InitSame /\ [][NextSame]_vars

(***************************************************************************)
(* Call-context lookups and the restored-context exit.                     *)
(***************************************************************************)

\* The members of CallContextFieldTag the model uses; FQ(field_tag) is the
\* position of the member.
CallContextFieldTags ==
    <<"TxId", "CallerId", "IsSuccess", "IsPersistent", "IsRoot", "IsCreate",
      "CodeHash", "ProgramCounter", "StackPointer", "GasLeft", "MemorySize",
      "ReversibleWriteCounter", "LastCalleeId", "LastCalleeReturnDataOffset",
      "LastCalleeReturnDataLength", "RwCounterEndOfReversion">>

\* FQ(field_tag)
FieldTagValue(field_tag) ==
    CHOOSE i \in 1 .. Len(CallContextFieldTags) :
        CallContextFieldTags[i] = field_tag

\* WordOrValue(x) for a field element x: the value column of a row.
ValueOf(x) == [lo |-> x, hi |-> 0]

\* Instruction.call_context_lookup_word: the field tag is passed in the
\* position of the address column.
call_context_lookup_word(ctx, field_tag, rw, call_id) ==
    Bind(rw_lookup(ctx, rw, "CallContext",
                   [NoKeys EXCEPT
                       !.id = Some(IF call_id = None THEN curr.call_id
                                   ELSE call_id[1]),
                       !.address = Some(FieldTagValue(field_tag))],
                   None),
         LAMBDA c : IF c.status = "ok" THEN [c EXCEPT !.val = c.val[1].value]
                    ELSE c)

\* Instruction.call_context_lookup: WordOrValue.value() of the row's value.
call_context_lookup(ctx, field_tag, rw, call_id) ==
    Bind(call_context_lookup_word(ctx, field_tag, rw, call_id),
         LAMBDA c : IF c.status = "ok" THEN [c EXCEPT !.val = c.val.lo] ELSE c)

\* The fields of the caller's frame, in the order they are read.
RestoredFieldTags ==
    <<"IsRoot", "IsCreate", "CodeHash", "ProgramCounter", "StackPointer",
      "GasLeft", "MemorySize", "ReversibleWriteCounter">>

RECURSIVE call_context_lookups(_, _, _, _)
\* The list of call_context_lookup_word(field_tag, call_id=caller_id) over
\* the field tags; the first lookup that fails ends it.
call_context_lookups(ctx, field_tags, caller_id, values) ==
    IF field_tags = <<>> THEN [ctx EXCEPT !.val = values]
    ELSE Bind(call_context_lookup_word(ctx, Head(field_tags), "Read",
                                       Some(caller_id)),
              LAMBDA c :
                  IF c.status # "ok" THEN c
                  ELSE call_context_lookups(c, Tail(field_tags), caller_id,
                                            Append(values, c.val)))

RECURSIVE last_callee_writes_ValuesFree(_, _, _)
\* last_callee_writes looking the three rows up without constraining the
\* values they carry.
last_callee_writes_ValuesFree(ctx, updates, caller_id) ==
    IF updates = <<>> THEN [ctx EXCEPT !.val = None]
    ELSE Bind(call_context_lookup(ctx, Head(updates)[1], "Write",
                                  Some(caller_id)),
              LAMBDA c :
                  IF c.status # "ok" THEN c
                  ELSE last_callee_writes_ValuesFree(c, Tail(updates),
                                                     caller_id))

RECURSIVE last_callee_writes(_, _, _)
\* The loop over the caller's last-callee fields: each is looked up as a
\* Write and constrained to equal the expected value.
last_callee_writes(ctx, updates, caller_id) ==
    IF updates = <<>> THEN [ctx EXCEPT !.val = None]
    ELSE Bind(call_context_lookup(ctx, Head(updates)[1], "Write",
                                  Some(caller_id)),
              LAMBDA c :
                  IF c.status # "ok" THEN c
                  ELSE IF constrain_equal(c.val, Head(updates)[2]).status # "ok"
                  THEN [c EXCEPT !.status = "AssertionError", !.val = None]
                  ELSE last_callee_writes(c, Tail(updates), caller_id))

\* The delta with the caller-id lookup left uncounted.
restored_rw_counter_delta_CallerIdUncounted(rw_counter_delta, caller_id) ==
    rw_counter_delta + 11

\* rw_counter_delta += 11 + int(caller_id is None)
restored_rw_counter_delta(rw_counter_delta, caller_id) ==
    rw_counter_delta + 11 + (IF caller_id = None THEN 1 ELSE 0)

\* RestoredTransitions with the callee's reversible writes counted whatever
\* the execution state.
RestoredTransitions_CalleeAlwaysCounted(delta, caller_id, frame, gas_left) ==
    [key \in TransitionKeys \ {"log_id"} |->
        CASE key = "rw_counter" -> Delta(delta)
          [] key = "call_id" -> To(caller_id)
          [] key = "is_root" -> To(frame[1].lo)
          [] key = "is_create" -> To(frame[2].lo)
          [] key = "code_hash" -> ToWord(frame[3])
          [] key = "program_counter" -> To(frame[4].lo)
          [] key = "stack_pointer" -> To(frame[5].lo)
          [] key = "gas_left" -> To(frame[6].lo + gas_left)
          [] key = "memory_word_size" -> To(frame[7].lo)
          [] key = "reversible_write_counter" ->
                 To(frame[8].lo + curr.reversible_write_counter)]

\* RestoredTransitions with is_root left as it is instead of restored.
RestoredTransitions_IsRootSame(delta, caller_id, frame, gas_left) ==
    [key \in TransitionKeys \ {"log_id"} |->
        CASE key = "rw_counter" -> Delta(delta)
          [] key = "call_id" -> To(caller_id)
          [] key = "is_root" -> Same
          [] key = "is_create" -> To(frame[2].lo)
          [] key = "code_hash" -> ToWord(frame[3])
          [] key = "program_counter" -> To(frame[4].lo)
          [] key = "stack_pointer" -> To(frame[5].lo)
          [] key = "gas_left" -> To(frame[6].lo + gas_left)
          [] key = "memory_word_size" -> To(frame[7].lo)
          [] key = "reversible_write_counter" ->
                 To(frame[8].lo
                    + (IF halts_in_success(curr.execution_state)
                       THEN curr.reversible_write_counter ELSE 0))]

\* RestoredTransitions with log_id required to stay as it is.
RestoredTransitions_LogIdSame(delta, caller_id, frame, gas_left) ==
    [key \in TransitionKeys |->
        CASE key = "rw_counter" -> Delta(delta)
          [] key = "call_id" -> To(caller_id)
          [] key = "is_root" -> To(frame[1].lo)
          [] key = "is_create" -> To(frame[2].lo)
          [] key = "code_hash" -> ToWord(frame[3])
          [] key = "program_counter" -> To(frame[4].lo)
          [] key = "stack_pointer" -> To(frame[5].lo)
          [] key = "gas_left" -> To(frame[6].lo + gas_left)
          [] key = "memory_word_size" -> To(frame[7].lo)
          [] key = "log_id" -> Same
          [] key = "reversible_write_counter" ->
                 To(frame[8].lo
                    + (IF halts_in_success(curr.execution_state)
                       THEN curr.reversible_write_counter ELSE 0))]

\* The transitions of the restored-context exit, from the caller's id, the
\* eight values read and the gas handed back.
RestoredTransitions(delta, caller_id, frame, gas_left) ==
    [key \in TransitionKeys \ {"log_id"} |->
        CASE key = "rw_counter" -> Delta(delta)
          [] key = "call_id" -> To(caller_id)
          [] key = "is_root" -> To(frame[1].lo)
          [] key = "is_create" -> To(frame[2].lo)
          [] key = "code_hash" -> ToWord(frame[3])
          [] key = "program_counter" -> To(frame[4].lo)
          [] key = "stack_pointer" -> To(frame[5].lo)
          [] key = "gas_left" -> To(frame[6].lo + gas_left)
          [] key = "memory_word_size" -> To(frame[7].lo)
          [] key = "reversible_write_counter" ->
                 To(frame[8].lo
                    + (IF halts_in_success(curr.execution_state)
                       THEN curr.reversible_write_counter ELSE 0))]

\* Instruction.step_state_transition_to_restored_context. caller_id is None
\* or Some(id).
step_state_transition_to_restored_context(ctx, rw_counter_delta, return_data_offset, return_data_length, gas_left, caller_id) ==
    Bind(IF caller_id = None
         THEN call_context_lookup(ctx, "CallerId", "Read", None)
         ELSE [ctx EXCEPT !.val = caller_id[1]],
         LAMBDA c1 :
    IF c1.status # "ok" THEN c1 ELSE
    Bind(call_context_lookups(c1, RestoredFieldTags, c1.val, <<>>),
         LAMBDA c2 :
    IF c2.status # "ok" THEN c2 ELSE
    Bind(last_callee_writes(
             c2,
             <<<<"LastCalleeId", curr.call_id>>,
               <<"LastCalleeReturnDataOffset", return_data_offset>>,
               <<"LastCalleeReturnDataLength", return_data_length>>>>,
             c1.val),
         LAMBDA c3 :
    IF c3.status # "ok" THEN c3 ELSE
    constrain_step_state_transition(
        c3, RestoredTransitions(
                restored_rw_counter_delta(rw_counter_delta, caller_id),
                c1.val, c2.val, gas_left)))))

(***************************************************************************)
(* Specification SpecRestore: one call of                                  *)
(* step_state_transition_to_restored_context by a callee (call 2) that     *)
(* halts and returns to its caller (call 1). The RW table holds the rows   *)
(* the call reads and writes, from the row the Instruction has reached;    *)
(* the next step is the caller's restored frame. Up to MaxFaults of the    *)
(* next step's fields and of the rows are altered.                         *)
(***************************************************************************)

\* The frame of the caller saved in its call context.
CallerFrame ==
    <<ValueOf(1), ValueOf(0), [lo |-> 7, hi |-> 8], ValueOf(5), ValueOf(1020),
      ValueOf(100), ValueOf(2), ValueOf(4)>>

\* A row of the RW table under RWTableTag.CallContext.
CallContextRow(rw_counter, rw, call_id, field_tag, value) ==
    [rw_counter |-> rw_counter, rw |-> rw, tag |-> "CallContext",
     id |-> call_id, address |-> FieldTagValue(field_tag), field_tag |-> 0,
     storage_key |-> 0, value |-> value, value_prev |-> ValueOf(0),
     aux0 |-> 0]

\* The rows of one restored-context exit from counter first on: the read
\* of the callee's CallerId if it is looked up, the eight reads of the
\* caller's frame and the three writes of its last-callee fields.
RestoreRows(first, looked_up, last_callee_id) ==
    LET base == IF looked_up THEN first + 1 ELSE first
    IN  (IF looked_up
         THEN {CallContextRow(first, "Read", 2, "CallerId", ValueOf(1))}
         ELSE {})
        \cup {CallContextRow(base + i - 1, "Read", 1, RestoredFieldTags[i],
                             CallerFrame[i]) : i \in 1 .. 8}
        \cup {CallContextRow(base + 8, "Write", 1, "LastCalleeId",
                             ValueOf(last_callee_id)),
              CallContextRow(base + 9, "Write", 1,
                             "LastCalleeReturnDataOffset", ValueOf(64)),
              CallContextRow(base + 10, "Write", 1,
                             "LastCalleeReturnDataLength", ValueOf(32))}

\* What SpecRestore alters: fields of the next step, or the value written
\* to the caller's LastCalleeId.
RestoreFaults ==
    {"rw_counter", "call_id", "is_root", "is_create", "code_hash",
     "program_counter", "stack_pointer", "gas_left", "memory_word_size",
     "reversible_write_counter", "log_id", "LastCalleeId"}

InitRestore ==
    \E es \in {"STOP", "RETURN", "REVERT"}, looked_up \in BOOLEAN,
       before \in 0 .. 1, faults \in SUBSET RestoreFaults :
        /\ Cardinality(faults) <= MaxFaults
        /\ curr = [StepState(es) EXCEPT
                      !.rw_counter = 20, !.call_id = 2,
                      !.code_hash = [lo |-> 9, hi |-> 9],
                      !.program_counter = 3, !.stack_pointer = 1000,
                      !.gas_left = 7, !.reversible_write_counter = 1]
        /\ LET expected ==
                   [StepState("GASPRICE") EXCEPT
                       !.rw_counter = 20 + before + 11
                                         + (IF looked_up THEN 1 ELSE 0),
                       !.call_id = 1, !.is_root = 1,
                       !.code_hash = [lo |-> 7, hi |-> 8],
                       !.program_counter = 5, !.stack_pointer = 1020,
                       !.gas_left = 107, !.memory_word_size = 2,
                       !.reversible_write_counter =
                           IF halts_in_success(es) THEN 5 ELSE 4]
           IN  next = [key \in DOMAIN expected |->
                          IF key \in faults
                          THEN Altered(key, expected[key])
                          ELSE expected[key]]
        /\ rw_table = RestoreRows(20 + before, looked_up,
                                  IF "LastCalleeId" \in faults THEN 9 ELSE 2)
        /\ rw_counter_offset = before
        /\ program_counter_offset = 0
        /\ stack_pointer_offset = 0
        /\ log_index_offset = 0
        /\ reversion_info = None
        /\ call = NoCall
        /\ ret = NoRet
        /\ log = <<>>
        /\ steps = <<es>>
        /\ default_transitions = DefaultTransitions
        /\ suspended = None

\* One call of step_state_transition_to_restored_context.
StepStateTransitionToRestoredContext ==
    /\ ret = NoRet
    /\ \E rw_counter_delta \in 0 .. 1, return_data_offset \in {0, 64},
          return_data_length \in {0, 32}, gas_left \in {0, 7},
          caller_id \in {None, Some(1), Some(3)} :
          LET c == step_state_transition_to_restored_context(
                       Ctx, rw_counter_delta, return_data_offset,
                       return_data_length, gas_left, caller_id)
          IN  /\ call' = [op |-> "step_state_transition_to_restored_context",
                          rw_counter_delta |-> rw_counter_delta,
                          return_data_offset |-> return_data_offset,
                          return_data_length |-> return_data_length,
                          gas_left |-> gas_left, caller_id |-> caller_id,
                          offset_at |-> rw_counter_offset,
                          log_at |-> Len(log)]
              /\ ret' = RetOf(c)
              /\ rw_counter_offset' = c.rw_counter_offset
              /\ log' = c.log
    /\ UNCHANGED <<curr, next, program_counter_offset, stack_pointer_offset,
                   log_index_offset, rw_table, reversion_info, steps, elsewhere>>

NextRestore == StepStateTransitionToRestoredContext

SpecRestore == InitRestore /\ [][NextRestore]_vars

(***************************************************************************)
(* The entry into a new call context.                                      *)
(***************************************************************************)

\* step_state_transition_to_new_context with the program counter kept from
\* the current step instead of initialised.
step_state_transition_to_new_context_PcSame(ctx, rw_counter, call_id, is_root, is_create, code_hash, gas_left, reversible_write_counter, log_id) ==
    constrain_step_state_transition(ctx,
        [key \in TransitionKeys |->
            CASE key = "rw_counter" -> rw_counter
              [] key = "call_id" -> call_id
              [] key = "is_root" -> is_root
              [] key = "is_create" -> is_create
              [] key = "code_hash" -> code_hash
              [] key = "gas_left" -> gas_left
              [] key = "reversible_write_counter" -> reversible_write_counter
              [] key = "log_id" -> log_id
              [] key = "program_counter" -> Same
              [] key = "stack_pointer" -> To(1024)
              [] key = "memory_word_size" -> To(0)])

\* Instruction.step_state_transition_to_new_context
step_state_transition_to_new_context(ctx, rw_counter, call_id, is_root, is_create, code_hash, gas_left, reversible_write_counter, log_id) ==
    constrain_step_state_transition(ctx,
        [key \in TransitionKeys |->
            CASE key = "rw_counter" -> rw_counter
              [] key = "call_id" -> call_id
              [] key = "is_root" -> is_root
              [] key = "is_create" -> is_create
              [] key = "code_hash" -> code_hash
              [] key = "gas_left" -> gas_left
              [] key = "reversible_write_counter" -> reversible_write_counter
              [] key = "log_id" -> log_id
              [] key = "program_counter" -> To(0)
              [] key = "stack_pointer" -> To(1024)
              [] key = "memory_word_size" -> To(0)])

(***************************************************************************)
(* Specification SpecNew: one call of step_state_transition_to_new_context *)
(* on a calling step and the first step of the callee, over the program    *)
(* counters, stack pointers and memory sizes of both steps.                *)
(***************************************************************************)

\* The keyword arguments of step_state_transition_to_new_context.
NewContextKeys ==
    {"rw_counter", "call_id", "is_root", "is_create", "code_hash",
     "gas_left", "reversible_write_counter", "log_id"}

\* The two transitions SpecNew passes for a keyword argument: the one of a
\* call into the callee and another one.
NewContextPool(key) ==
    CASE key = "rw_counter" -> <<Delta(24), Same>>
      [] key = "call_id" -> <<To(20), Same>>
      [] key = "is_root" -> <<To(0), Same>>
      [] key = "is_create" -> <<To(0), Same>>
      [] key = "code_hash" -> <<ToWord([lo |-> 7, hi |-> 9]), SameWord>>
      [] key = "gas_left" -> <<To(50), Delta(-3)>>
      [] key = "reversible_write_counter" -> <<To(0), To(2)>>
      [] key = "log_id" -> <<Same, Delta(1)>>

InitNew ==
    /\ \E pc \in {0, 3}, sp \in {1024, 1000}, mws \in {0, 2} :
          curr = [StepState("CALL") EXCEPT
                     !.rw_counter = 20, !.call_id = 1, !.is_root = 1,
                     !.code_hash = [lo |-> 7, hi |-> 8],
                     !.program_counter = pc, !.stack_pointer = sp,
                     !.gas_left = 80, !.memory_word_size = mws,
                     !.reversible_write_counter = 2]
    /\ \E pc \in {0, 3}, sp \in {1024, 1000}, mws \in {0, 2} :
          next = [StepState("STOP") EXCEPT
                     !.rw_counter = 44, !.call_id = 20,
                     !.code_hash = [lo |-> 7, hi |-> 9],
                     !.program_counter = pc, !.stack_pointer = sp,
                     !.gas_left = 50, !.memory_word_size = mws]
    /\ rw_counter_offset = 24
    /\ program_counter_offset = 0
    /\ stack_pointer_offset = 0
    /\ log_index_offset = 0
    /\ rw_table = {}
    /\ reversion_info = None
    /\ call = NoCall
    /\ ret = NoRet
    /\ log = <<>>
    /\ steps = <<"CALL">>
    /\ default_transitions = DefaultTransitions
    /\ suspended = None

\* One call of step_state_transition_to_new_context; other holds the
\* keyword arguments that are given their second transition.
StepStateTransitionToNewContext ==
    /\ ret = NoRet
    /\ \E other \in SUBSET NewContextKeys :
          LET given == [key \in NewContextKeys |->
                          NewContextPool(key)[IF key \in other THEN 2 ELSE 1]]
              c == step_state_transition_to_new_context(
                       Ctx, given["rw_counter"], given["call_id"],
                       given["is_root"], given["is_create"],
                       given["code_hash"], given["gas_left"],
                       given["reversible_write_counter"], given["log_id"])
          IN  /\ call' = [op |-> "step_state_transition_to_new_context",
                          given |-> given, other |-> other,
                          log_at |-> Len(log)]
              /\ ret' = RetOf(c)
              /\ log' = c.log
    /\ UNCHANGED <<curr, next, offsets, rw_table, reversion_info,
                   steps, elsewhere>>

NextNew == StepStateTransitionToNewContext

SpecNew == InitNew /\ [][NextNew]_vars

(***************************************************************************)
(* The error state.                                                        *)
(***************************************************************************)

\* Instruction.is_equal: lhs - rhs is zero in the field exactly when lhs and
\* rhs are the same element; it is used on members of ExecutionState too.
is_equal(lhs, rhs) == IF lhs = rhs THEN 1 ELSE 0

\* constrain_error_state without the constraint that ties EndTx to is_root.
constrain_error_state_EndTxUnchecked(ctx, rw_counter_delta) ==
    Bind(call_context_lookup(ctx, "IsSuccess", "Read", None),
         LAMBDA c :
    IF c.status # "ok" THEN c
    ELSE IF constrain_equal(c.val, 0).status # "ok"
    THEN [c EXCEPT !.status = "AssertionError", !.val = None]
    ELSE IF curr.is_root # 0
    THEN constrain_step_state_transition(
             c, [key \in {"rw_counter", "call_id"} |->
                    IF key = "rw_counter" THEN Delta(rw_counter_delta)
                    ELSE Same])
    ELSE step_state_transition_to_restored_context(
             c, rw_counter_delta, 0, 0, 0, None))

\* constrain_error_state handing the callee's gas left back to the caller.
constrain_error_state_GasRefunded(ctx, rw_counter_delta) ==
    Bind(call_context_lookup(ctx, "IsSuccess", "Read", None),
         LAMBDA c :
    IF c.status # "ok" THEN c
    ELSE IF constrain_equal(c.val, 0).status # "ok"
    THEN [c EXCEPT !.status = "AssertionError", !.val = None]
    ELSE IF constrain_equal(
                curr.is_root,
                is_equal(next.execution_state, "EndTx")).status # "ok"
    THEN [c EXCEPT !.status = "AssertionError", !.val = None]
    ELSE IF curr.is_root # 0
    THEN constrain_step_state_transition(
             c, [key \in {"rw_counter", "call_id"} |->
                    IF key = "rw_counter" THEN Delta(rw_counter_delta)
                    ELSE Same])
    ELSE step_state_transition_to_restored_context(
             c, rw_counter_delta, 0, 0, curr.gas_left, None))

\* constrain_error_state whose root branch passes the rw_counter alone.
constrain_error_state_RootCallIdFree(ctx, rw_counter_delta) ==
    Bind(call_context_lookup(ctx, "IsSuccess", "Read", None),
         LAMBDA c :
    IF c.status # "ok" THEN c
    ELSE IF constrain_equal(c.val, 0).status # "ok"
    THEN [c EXCEPT !.status = "AssertionError", !.val = None]
    ELSE IF constrain_equal(
                curr.is_root,
                is_equal(next.execution_state, "EndTx")).status # "ok"
    THEN [c EXCEPT !.status = "AssertionError", !.val = None]
    ELSE IF curr.is_root # 0
    THEN constrain_step_state_transition(
             c, [key \in {"rw_counter"} |-> Delta(rw_counter_delta)])
    ELSE step_state_transition_to_restored_context(
             c, rw_counter_delta, 0, 0, 0, None))

\* Instruction.constrain_error_state
constrain_error_state(ctx, rw_counter_delta) ==
    Bind(call_context_lookup(ctx, "IsSuccess", "Read", None),
         LAMBDA c :
    IF c.status # "ok" THEN c
    ELSE IF constrain_equal(c.val, 0).status # "ok"
    THEN [c EXCEPT !.status = "AssertionError", !.val = None]
    ELSE IF constrain_equal(
                curr.is_root,
                is_equal(next.execution_state, "EndTx")).status # "ok"
    THEN [c EXCEPT !.status = "AssertionError", !.val = None]
    ELSE IF curr.is_root # 0
    THEN constrain_step_state_transition(
             c, [key \in {"rw_counter", "call_id"} |->
                    IF key = "rw_counter" THEN Delta(rw_counter_delta)
                    ELSE Same])
    ELSE step_state_transition_to_restored_context(
             c, rw_counter_delta, 0, 0, 0, None))

(***************************************************************************)
(* Specification SpecError: one call of constrain_error_state by a step in *)
(* an error state, of the root call (call 1) or of a callee (call 2) of    *)
(* call 1. The RW table holds the row of the call's IsSuccess and, for the *)
(* callee, the rows of the restored-context exit; the next step is EndTx   *)
(* or a step of the caller. The saved IsSuccess, the return data written   *)
(* to the caller, the gas of the next step and up to MaxFaults of its      *)
(* other fields vary.                                                      *)
(***************************************************************************)

\* The rows of one call of constrain_error_state by the call call_id from
\* counter first on.
ErrorRows(first, call_id, is_success, offset, length) ==
    {CallContextRow(first, "Read", call_id, "IsSuccess", ValueOf(is_success))}
    \cup (IF call_id = 1 THEN {}
          ELSE {CASE r.address = FieldTagValue("LastCalleeReturnDataOffset")
                       -> [r EXCEPT !.value = ValueOf(offset)]
                  [] r.address = FieldTagValue("LastCalleeReturnDataLength")
                       -> [r EXCEPT !.value = ValueOf(length)]
                  [] OTHER -> r
                : r \in RestoreRows(first + 1, TRUE, call_id)})

InitError ==
    \E is_root \in 0 .. 1, to \in {"EndTx", "GASPRICE"},
       is_success \in 0 .. 1, offset \in 0 .. 1, length \in {0, 32},
       refund \in {0, 7}, faults \in SUBSET FaultFields :
        /\ Cardinality(faults) <= MaxFaults
        /\ curr = [StepState("ErrorOutOfGasConstant") EXCEPT
                      !.rw_counter = 20, !.call_id = 2 - is_root,
                      !.is_root = is_root,
                      !.code_hash = [lo |-> 9, hi |-> 9],
                      !.program_counter = 3, !.stack_pointer = 1000,
                      !.gas_left = 7, !.reversible_write_counter = 1]
        /\ LET expected ==
                   IF is_root = 1
                   THEN [StepState(to) EXCEPT
                            !.rw_counter = 21, !.call_id = 1, !.is_root = 1]
                   ELSE [StepState(to) EXCEPT
                            !.rw_counter = 33, !.call_id = 1, !.is_root = 1,
                            !.code_hash = [lo |-> 7, hi |-> 8],
                            !.program_counter = 5, !.stack_pointer = 1020,
                            !.gas_left = 100 + refund,
                            !.memory_word_size = 2,
                            !.reversible_write_counter = 4]
           IN  next = [key \in DOMAIN expected |->
                          IF key \in faults
                          THEN Altered(key, expected[key])
                          ELSE expected[key]]
        /\ rw_table = ErrorRows(20, 2 - is_root, is_success, offset, length)
        /\ rw_counter_offset = 0
        /\ program_counter_offset = 0
        /\ stack_pointer_offset = 0
        /\ log_index_offset = 0
        /\ reversion_info = None
        /\ call = NoCall
        /\ ret = NoRet
        /\ log = <<>>
        /\ steps = <<"ErrorOutOfGasConstant">>
        /\ default_transitions = DefaultTransitions
        /\ suspended = None

\* One call of constrain_error_state.
ConstrainErrorState ==
    /\ ret = NoRet
    /\ \E rw_counter_delta \in 1 .. 2 :
          LET c == constrain_error_state(Ctx, rw_counter_delta)
          IN  /\ call' = [op |-> "constrain_error_state",
                          rw_counter_delta |-> rw_counter_delta,
                          offset_at |-> rw_counter_offset,
                          log_at |-> Len(log)]
              /\ ret' = RetOf(c)
              /\ rw_counter_offset' = c.rw_counter_offset
              /\ log' = c.log
    /\ UNCHANGED <<curr, next, program_counter_offset, stack_pointer_offset,
                   log_index_offset, rw_table, reversion_info, steps, elsewhere>>

NextError == ConstrainErrorState

SpecError == InitError /\ [][NextError]_vars

(***************************************************************************)
(* Comparison and arithmetic of words.                                     *)
(***************************************************************************)

\* Instruction.compare: (lhs < rhs, lhs == rhs) as field elements 0 and 1,
\* or the failure of an assert on the operands' size.
compare(lhs, rhs, n_bytes) ==
    Bind2(lhs, rhs, LAMBDA l, r :
        IF n_bytes > MAX_N_BYTES \/ Len(l) > n_bytes \/ Len(r) > n_bytes
        THEN Raise("AssertionError")
        ELSE Ok(<<IF BigLt(l, r) THEN 1 ELSE 0, IF l = r THEN 1 ELSE 0>>))

\* compare_word comparing the low halves first.
compare_word_LowFirst(lhs, rhs) ==
    Bind2(compare(to_lo_hi(lhs)[2], to_lo_hi(rhs)[2], 16),
          compare(to_lo_hi(lhs)[1], to_lo_hi(rhs)[1], 16),
          LAMBDA hi, lo :
              IF hi.status # "ok" THEN hi
              ELSE IF lo.status # "ok" THEN lo
              ELSE Ok(<<lo.value[1] + lo.value[2] * hi.value[1],
                        hi.value[2] * lo.value[2]>>))

\* Instruction.compare_word
compare_word(lhs, rhs) ==
    Bind2(compare(to_lo_hi(lhs)[2], to_lo_hi(rhs)[2], 16),
          compare(to_lo_hi(lhs)[1], to_lo_hi(rhs)[1], 16),
          LAMBDA hi, lo :
              IF hi.status # "ok" THEN hi
              ELSE IF lo.status # "ok" THEN lo
              ELSE Ok(<<hi.value[1] + hi.value[2] * lo.value[1],
                        hi.value[2] * lo.value[2]>>))

\* The limb 2^63 and the limb 2^63 - 1.
TopBitLimb == <<0, 0, 0, 0, 0, 0, 0, 128>>

BelowTopBitLimb == <<255, 255, 255, 255, 255, 255, 255, 127>>

\* 2^127, and 0x7FFFFFFFFFFFFFFFFFFFFFFFFFFFFFFF = 2^127 - 1.
TopBitHalf == ShiftBytes(TopBitLimb, 8)

BelowTopBitHalf == BigAdd(MaxLimb, ShiftBytes(BelowTopBitLimb, 8))

\* Instruction.constrain_zero
constrain_zero(value) ==
    IF value = <<>> THEN Ok(None) ELSE Raise("AssertionError")

\* is_neg_word comparing the high half with 2^127.
is_neg_word_AboveTopBit(word) ==
    Bind(compare(TopBitHalf, word.hi, 16),
         LAMBDA c : IF c.status = "ok" THEN Ok(c.value[1]) ELSE c)

\* Instruction.is_neg_word: whether 0x7FFF...FF is below the high half.
is_neg_word(word) ==
    Bind(compare(BelowTopBitHalf, word.hi, 16),
         LAMBDA c : IF c.status = "ok" THEN Ok(c.value[1]) ELSE c)

\* 1 << 256
Pow256 == ShiftBytes(<<1>>, 32)

\* Instruction.abs_word: (x_abs, is_neg), or the failure of the first
\* constraint that does not hold.
abs_word(x) ==
    Bind(is_neg_word(x), LAMBDA n :
    IF n.status # "ok" THEN n ELSE
    Bind2(IF n.value = 0 THEN x ELSE WordOf(BigSub(Pow256, int_value(x))),
          Big(n.value),
          LAMBDA x_abs, is_neg :
    Bind(BigAdd(x.lo, x_abs.lo), LAMBDA lo :
    Bind2(HighBytes(lo, 16), LowBytes(lo, 16), LAMBDA carry_lo, sum_lo :
    Bind(BigAdd(BigAdd(x.hi, x_abs.hi), carry_lo), LAMBDA hi :
    Bind2(HighBytes(hi, 16), LowBytes(hi, 16), LAMBDA carry_hi, sum_hi :
    FirstFailure(
        <<constrain_zero(FQMul(FQSub(x_abs.lo, x.lo), FQSub(<<1>>, is_neg))),
          constrain_zero(FQMul(FQSub(x_abs.hi, x.hi), FQSub(<<1>>, is_neg))),
          constrain_zero(
              FQSub(FQAdd(FQ(sum_lo), FQMul(FQ(carry_lo), FQ(Pow128))),
                    FQAdd(x.lo, x_abs.lo))),
          constrain_zero(
              FQSub(FQSub(FQAdd(FQ(sum_hi), FQMul(FQ(carry_hi), FQ(Pow128))),
                          FQ(carry_lo)),
                    FQAdd(x.hi, x_abs.hi))),
          constrain_zero(FQMul(FQ(BigAdd(sum_lo, sum_hi)), is_neg)),
          constrain_zero(
              FQMul(IF BigLt(<<1>>, carry_hi)
                    THEN BigSub(FieldModulus, BigSub(carry_hi, <<1>>))
                    ELSE BigSub(<<1>>, carry_hi),
                    is_neg))>>,
        <<x_abs, n.value>>)))))))

RECURSIVE sum_values(_)
\* util.sum_values: the sum of the values in the field.
sum_values(values) ==
    IF values = <<>> THEN <<>>
    ELSE FQAdd(Head(values), sum_values(Tail(values)))

\* util.add_words: the halves of the addends are summed apart, the carry of
\* the low sum is added to the high sum; the sum as a word and the carry of
\* the high sum.
add_words(addends) ==
    Bind(sum_values([i \in 1 .. Len(addends) |-> to_lo_hi(addends[i])[1]]),
         LAMBDA lo :
    Bind(FQAdd(sum_values([i \in 1 .. Len(addends) |->
                              to_lo_hi(addends[i])[2]]),
               HighBytes(lo, 16)),
         LAMBDA hi :
        <<Word(FQ(LowBytes(lo, 16)), FQ(LowBytes(hi, 16))),
          FQ(HighBytes(hi, 16))>>))

\* sub_word with the borrow of the low halves left out of the high halves.
sub_word_BorrowLoDropped(minuend, subtrahend) ==
    Bind2(to_lo_hi(minuend), to_lo_hi(subtrahend), LAMBDA m, s :
    Bind(IF BigLt(m[1], s[1]) THEN <<1>> ELSE <<>>, LAMBDA borrow_lo :
    Bind(IF BigLt(m[2], BigAdd(s[2], <<>>)) THEN <<1>> ELSE <<>>,
         LAMBDA borrow_hi :
        <<Word(FQAdd(FQSub(m[1], s[1]),
                     IF borrow_lo = <<1>> THEN Pow128 ELSE <<>>),
               FQAdd(FQSub(FQSub(m[2], s[2]), <<>>),
                     IF borrow_hi = <<1>> THEN Pow128 ELSE <<>>)),
          borrow_hi>>)))

\* sub_word with the borrow of the high halves taken from the high halves
\* alone.
sub_word_HighBorrowAlone(minuend, subtrahend) ==
    Bind2(to_lo_hi(minuend), to_lo_hi(subtrahend), LAMBDA m, s :
    Bind(IF BigLt(m[1], s[1]) THEN <<1>> ELSE <<>>, LAMBDA borrow_lo :
    Bind(IF BigLt(m[2], s[2]) THEN <<1>> ELSE <<>>,
         LAMBDA borrow_hi :
        <<Word(FQAdd(FQSub(m[1], s[1]),
                     IF borrow_lo = <<1>> THEN Pow128 ELSE <<>>),
               FQAdd(FQSub(FQSub(m[2], s[2]), borrow_lo),
                     IF borrow_hi = <<1>> THEN Pow128 ELSE <<>>)),
          borrow_hi>>)))

\* Instruction.sub_word: the difference as a word and the borrow of the
\* high halves.
sub_word(minuend, subtrahend) ==
    Bind2(to_lo_hi(minuend), to_lo_hi(subtrahend), LAMBDA m, s :
    Bind(IF BigLt(m[1], s[1]) THEN <<1>> ELSE <<>>, LAMBDA borrow_lo :
    Bind(IF BigLt(m[2], BigAdd(s[2], borrow_lo)) THEN <<1>> ELSE <<>>,
         LAMBDA borrow_hi :
        <<Word(FQAdd(FQSub(m[1], s[1]),
                     IF borrow_lo = <<1>> THEN Pow128 ELSE <<>>),
               FQAdd(FQSub(FQSub(m[2], s[2]), borrow_lo),
                     IF borrow_hi = <<1>> THEN Pow128 ELSE <<>>)),
          borrow_hi>>)))

\* Instruction.is_zero
is_zero(value) == IF value = <<>> THEN 1 ELSE 0

\* Instruction.is_zero_word: whether the sum of the halves is zero in the
\* field.
is_zero_word(word) == is_zero(sum_values(<<word.lo, word.hi>>))

\* Instruction.is_equal_word: is_zero_word of the word of the differences of
\* the halves, built without a check of their range.
is_equal_word(lhs, rhs) ==
    is_zero_word(Word(FQSub(lhs.lo, rhs.lo), FQSub(lhs.hi, rhs.hi)))

\* util.N_BYTES_MEMORY_ADDRESS: the bytes of a memory address.
N_BYTES_MEMORY_ADDRESS == 5

\* Word.to_le_bytes: the 16 little-endian bytes of lo, then those of hi.
to_le_bytes(word) ==
    Bind(word, LAMBDA w :
        w.lo \o [i \in 1 .. 16 - Len(w.lo) |-> 0]
             \o w.hi \o [i \in 1 .. 16 - Len(w.hi) |-> 0])

RECURSIVE ByteSum(_)
\* sum over a slice of bytes.
ByteSum(bytes) ==
    IF bytes = <<>> THEN 0 ELSE Head(bytes) + ByteSum(Tail(bytes))

\* Instruction.bytes_to_fq: the field element of little-endian bytes; with
\* constrained, the element is also constrained to equal the weighted sum
\* of the bytes.
bytes_to_fq(value, constrained) ==
    IF Len(value) > MAX_N_BYTES THEN Raise("AssertionError")
    ELSE Bind(FQ(Trim(value)), LAMBDA fq :
             IF constrained /\ constrain_equal(fq, FQ(Trim(value))).status # "ok"
             THEN constrain_equal(fq, FQ(Trim(value)))
             ELSE Ok(fq))

\* Instruction.word_to_fq: the word as one field element of n_bytes bytes.
word_to_fq(word, n_bytes) ==
    Bind(to_le_bytes(word), LAMBDA word_le_bytes :
        IF ByteSum(SubSeq(word_le_bytes, n_bytes + 1, Len(word_le_bytes))) # 0
        THEN Raise("ConstraintUnsatFailure")
        ELSE bytes_to_fq(SubSeq(word_le_bytes, 1, n_bytes), FALSE))

\* memory_offset_and_length with the offset converted before the length is
\* looked at.
memory_offset_and_length_OffsetFirst(offset_word, length_word) ==
    Bind2(word_to_fq(offset_word, N_BYTES_MEMORY_ADDRESS),
          word_to_fq(length_word, N_BYTES_MEMORY_ADDRESS),
          LAMBDA offset, length :
              IF offset.status # "ok" THEN offset
              ELSE IF length.status # "ok" THEN length
              ELSE IF is_zero(length.value) = 1 THEN Ok(<<<<>>, <<>>>>)
              ELSE Ok(<<offset.value, length.value>>))

\* Instruction.memory_offset_and_length: the length is converted first, and
\* a zero length returns (0, 0) before the offset is converted.
memory_offset_and_length(offset_word, length_word) ==
    Bind(word_to_fq(length_word, N_BYTES_MEMORY_ADDRESS), LAMBDA length :
        IF length.status # "ok" THEN length
        ELSE IF is_zero(length.value) = 1 THEN Ok(<<<<>>, <<>>>>)
        ELSE Bind(word_to_fq(offset_word, N_BYTES_MEMORY_ADDRESS),
                  LAMBDA offset :
                      IF offset.status # "ok" THEN offset
                      ELSE Ok(<<offset.value, length.value>>)))

(***************************************************************************)
(* Specification SpecWord: calls of the word gadgets on sample words.      *)
(***************************************************************************)

\* 0, 1, 5 + 2^128, 1 + 2^129, 2^128 - 1, 2^128, 2^255 - 1, 2^255,
\* 2^255 + 1, 2^256 - 1, 2^256 - 2^128, 3 + 2^128 + 2^193.
WordSamples ==
    <<WordOfLimbs(<<>>, <<>>, <<>>, <<>>),
      WordOfLimbs(<<1>>, <<>>, <<>>, <<>>),
      WordOfLimbs(<<5>>, <<>>, <<1>>, <<>>),
      WordOfLimbs(<<1>>, <<>>, <<2>>, <<>>),
      WordOfLimbs(MaxLimb, MaxLimb, <<>>, <<>>),
      WordOfLimbs(<<>>, <<>>, <<1>>, <<>>),
      WordOfLimbs(MaxLimb, MaxLimb, MaxLimb, BelowTopBitLimb),
      WordOfLimbs(<<>>, <<>>, <<>>, TopBitLimb),
      WordOfLimbs(<<1>>, <<>>, <<>>, TopBitLimb),
      WordOfLimbs(MaxLimb, MaxLimb, MaxLimb, MaxLimb),
      WordOfLimbs(<<>>, <<>>, MaxLimb, MaxLimb),
      WordOfLimbs(<<3>>, <<>>, <<1>>, <<2>>)>>

InitWord == InitMul

\* One call of compare_word.
CompareWord ==
    /\ ret = NoRet
    /\ \E i \in 1 .. Len(WordSamples), j \in 1 .. Len(WordSamples) :
          /\ call' = [op |-> "compare_word", lhs |-> WordSamples[i],
                      rhs |-> WordSamples[j], log_at |-> Len(log)]
          /\ ret' = compare_word(WordSamples[i], WordSamples[j])
    /\ UNCHANGED <<curr, next, offsets, rw_table, reversion_info, log,
                   steps, elsewhere>>

\* One call of abs_word, on a sample word or on the word the call of
\* abs_word before it returned (of is then the word of that call).
AbsWord ==
    /\ \/ /\ ret = NoRet
          /\ \E i \in 1 .. Len(WordSamples) :
                /\ call' = [op |-> "abs_word", x |-> WordSamples[i],
                            of |-> None, log_at |-> Len(log)]
                /\ ret' = abs_word(WordSamples[i])
       \/ /\ ret # NoRet
          /\ call.op = "abs_word"
          /\ call.of = None
          /\ ret.status = "ok"
          /\ call' = [op |-> "abs_word", x |-> ret.value[1],
                      of |-> Some(call.x), log_at |-> Len(log)]
          /\ ret' = abs_word(ret.value[1])
    /\ UNCHANGED <<curr, next, offsets, rw_table, reversion_info, log,
                   steps, elsewhere>>

\* One call of add_words on two sample words.
AddWords ==
    /\ ret = NoRet
    /\ \E i \in 1 .. Len(WordSamples), j \in 1 .. Len(WordSamples) :
          /\ call' = [op |-> "add_words", a |-> WordSamples[i],
                      b |-> WordSamples[j], log_at |-> Len(log)]
          /\ ret' = Ok(add_words(<<WordSamples[i], WordSamples[j]>>))
    /\ UNCHANGED <<curr, next, offsets, rw_table, reversion_info, log,
                   steps, elsewhere>>

\* One call of sub_word, on two sample words or on the sum the call of
\* add_words before it returned and the second addend of that call (of is
\* then its first addend).
SubWord ==
    /\ \/ /\ ret = NoRet
          /\ \E i \in 1 .. Len(WordSamples), j \in 1 .. Len(WordSamples) :
                /\ call' = [op |-> "sub_word", minuend |-> WordSamples[i],
                            subtrahend |-> WordSamples[j], of |-> None,
                            log_at |-> Len(log)]
                /\ ret' = Ok(sub_word(WordSamples[i], WordSamples[j]))
       \/ /\ ret # NoRet
          /\ call.op = "add_words"
          /\ call' = [op |-> "sub_word", minuend |-> ret.value[1],
                      subtrahend |-> call.b, of |-> Some(call.a),
                      log_at |-> Len(log)]
          /\ ret' = Ok(sub_word(ret.value[1], call.b))
    /\ UNCHANGED <<curr, next, offsets, rw_table, reversion_info, log,
                   steps, elsewhere>>

\* One call of is_equal_word on two sample words.
IsEqualWord ==
    /\ ret = NoRet
    /\ \E i \in 1 .. Len(WordSamples), j \in 1 .. Len(WordSamples) :
          /\ call' = [op |-> "is_equal_word", lhs |-> WordSamples[i],
                      rhs |-> WordSamples[j], log_at |-> Len(log)]
          /\ ret' = Ok(is_equal_word(WordSamples[i], WordSamples[j]))
    /\ UNCHANGED <<curr, next, offsets, rw_table, reversion_info, log,
                   steps, elsewhere>>

\* 0, 1, 2^40 - 1, 2^40, 2^128 and 7 + 2^128: the first three fit a memory
\* address.
MemoryWords ==
    <<Word(<<>>, <<>>),
      Word(<<1>>, <<>>),
      Word(<<255, 255, 255, 255, 255>>, <<>>),
      Word(<<0, 0, 0, 0, 0, 1>>, <<>>),
      Word(<<>>, <<1>>),
      Word(<<7>>, <<1>>)>>

\* One call of memory_offset_and_length.
MemoryOffsetAndLength ==
    /\ ret = NoRet
    /\ \E i \in 1 .. Len(MemoryWords), j \in 1 .. Len(MemoryWords) :
          /\ call' = [op |-> "memory_offset_and_length",
                      offset_word |-> MemoryWords[i],
                      length_word |-> MemoryWords[j], log_at |-> Len(log)]
          /\ ret' = memory_offset_and_length(MemoryWords[i], MemoryWords[j])
    /\ UNCHANGED <<curr, next, offsets, rw_table, reversion_info, log,
                   steps, elsewhere>>

NextWord ==
    \/ CompareWord
    \/ AbsWord
    \/ AddWords
    \/ SubWord
    \/ IsEqualWord
    \/ MemoryOffsetAndLength

SpecWord == InitWord /\ [][NextWord]_vars

(***************************************************************************)
(* The full-width multiply-add gadget.                                     *)
(***************************************************************************)

\* mul_add_words_512 without its last constraint, t6 + carry_2 == d_hi.
mul_add_words_512_HighUnconstrained(a, b, c, d, e) ==
    Bind2(to_64s(a), to_64s(b), LAMBDA a64s, b64s :
    Bind2(to_lo_hi(c), to_lo_hi(d), LAMBDA c_lo_hi, d_lo_hi :
    Bind(to_lo_hi(e), LAMBDA e_lo_hi :
    Bind2(FQMul(a64s[1], b64s[1]),
          FQAdd(FQMul(a64s[1], b64s[2]), FQMul(a64s[2], b64s[1])),
          LAMBDA t0, t1 :
    Bind2(FQAdd(FQAdd(FQMul(a64s[1], b64s[3]), FQMul(a64s[2], b64s[2])),
                FQMul(a64s[3], b64s[1])),
          FQAdd(FQAdd(FQAdd(FQMul(a64s[1], b64s[4]), FQMul(a64s[2], b64s[3])),
                      FQMul(a64s[3], b64s[2])),
                FQMul(a64s[4], b64s[1])),
          LAMBDA t2, t3 :
    Bind2(FQAdd(FQAdd(FQMul(a64s[2], b64s[4]), FQMul(a64s[3], b64s[3])),
                FQMul(a64s[4], b64s[2])),
          FQAdd(FQMul(a64s[3], b64s[4]), FQMul(a64s[4], b64s[3])),
          LAMBDA t4, t5 :
    Bind(FQMul(a64s[4], b64s[4]), LAMBDA t6 :
    Bind(FQDivPow(FQSub(FQAdd(FQAdd(t0, FQMul(t1, Pow64)), c_lo_hi[1]),
                        e_lo_hi[1]), 16),
         LAMBDA carry_0 :
    Bind(FQDivPow(FQSub(FQAdd(FQAdd(FQAdd(t2, FQMul(t3, Pow64)), c_lo_hi[2]),
                              carry_0),
                        e_lo_hi[2]), 16),
         LAMBDA carry_1 :
    Bind(FQDivPow(FQSub(FQAdd(FQAdd(t4, FQMul(t5, Pow64)), carry_1),
                        d_lo_hi[1]), 16),
         LAMBDA carry_2 :
    FirstFailure(
        <<range_check(carry_0, 9),
          range_check(carry_1, 9),
          range_check(carry_2, 9),
          constrain_equal(FQAdd(FQAdd(t0, FQMul(t1, Pow64)), c_lo_hi[1]),
                          FQAdd(e_lo_hi[1], FQMul(carry_0, Pow128))),
          constrain_equal(FQAdd(FQAdd(FQAdd(t2, FQMul(t3, Pow64)), c_lo_hi[2]),
                                carry_0),
                          FQAdd(e_lo_hi[2], FQMul(carry_1, Pow128))),
          constrain_equal(FQAdd(FQAdd(t4, FQMul(t5, Pow64)), carry_1),
                          FQAdd(d_lo_hi[1], FQMul(carry_2, Pow128)))>>,
        None)))))))))))

\* Instruction.mul_add_words_512: None, or the failure of the first check
\* that does not hold.
mul_add_words_512(a, b, c, d, e) ==
    Bind2(to_64s(a), to_64s(b), LAMBDA a64s, b64s :
    Bind2(to_lo_hi(c), to_lo_hi(d), LAMBDA c_lo_hi, d_lo_hi :
    Bind(to_lo_hi(e), LAMBDA e_lo_hi :
    Bind2(FQMul(a64s[1], b64s[1]),
          FQAdd(FQMul(a64s[1], b64s[2]), FQMul(a64s[2], b64s[1])),
          LAMBDA t0, t1 :
    Bind2(FQAdd(FQAdd(FQMul(a64s[1], b64s[3]), FQMul(a64s[2], b64s[2])),
                FQMul(a64s[3], b64s[1])),
          FQAdd(FQAdd(FQAdd(FQMul(a64s[1], b64s[4]), FQMul(a64s[2], b64s[3])),
                      FQMul(a64s[3], b64s[2])),
                FQMul(a64s[4], b64s[1])),
          LAMBDA t2, t3 :
    Bind2(FQAdd(FQAdd(FQMul(a64s[2], b64s[4]), FQMul(a64s[3], b64s[3])),
                FQMul(a64s[4], b64s[2])),
          FQAdd(FQMul(a64s[3], b64s[4]), FQMul(a64s[4], b64s[3])),
          LAMBDA t4, t5 :
    Bind(FQMul(a64s[4], b64s[4]), LAMBDA t6 :
    Bind(FQDivPow(FQSub(FQAdd(FQAdd(t0, FQMul(t1, Pow64)), c_lo_hi[1]),
                        e_lo_hi[1]), 16),
         LAMBDA carry_0 :
    Bind(FQDivPow(FQSub(FQAdd(FQAdd(FQAdd(t2, FQMul(t3, Pow64)), c_lo_hi[2]),
                              carry_0),
                        e_lo_hi[2]), 16),
         LAMBDA carry_1 :
    Bind(FQDivPow(FQSub(FQAdd(FQAdd(t4, FQMul(t5, Pow64)), carry_1),
                        d_lo_hi[1]), 16),
         LAMBDA carry_2 :
    FirstFailure(
        <<range_check(carry_0, 9),
          range_check(carry_1, 9),
          range_check(carry_2, 9),
          constrain_equal(FQAdd(FQAdd(t0, FQMul(t1, Pow64)), c_lo_hi[1]),
                          FQAdd(e_lo_hi[1], FQMul(carry_0, Pow128))),
          constrain_equal(FQAdd(FQAdd(FQAdd(t2, FQMul(t3, Pow64)), c_lo_hi[2]),
                                carry_0),
                          FQAdd(e_lo_hi[2], FQMul(carry_1, Pow128))),
          constrain_equal(FQAdd(FQAdd(t4, FQMul(t5, Pow64)), carry_1),
                          FQAdd(d_lo_hi[1], FQMul(carry_2, Pow128))),
          constrain_equal(FQAdd(t6, carry_2), d_lo_hi[2])>>,
        None)))))))))))

(***************************************************************************)
(* Specification SpecMul512: one call of mul_add_words_512 on sample       *)
(* words.                                                                  *)
(***************************************************************************)

\* The word with one added to its low half (mod 2^128).
BumpLo(w) == Word(LowBytes(BigAdd(w.lo, <<1>>), 16), w.hi)

\* The word with one added to its high half (mod 2^128).
BumpHi(w) == Word(w.lo, LowBytes(BigAdd(w.hi, <<1>>), 16))

\* The pairs SpecMul512 passes as (d, e): the high and the low 256 bits of
\* a * b + c, that pair with one added to a half of d or of e, and the
\* pair swapped.
ResultPairs(a, b, c) ==
    Bind(BigAdd(BigMul(int_value(a), int_value(b)), int_value(c)),
         LAMBDA r :
    Bind2(WordOf(HighBytes(r, 32)), WordOf(LowBytes(r, 32)), LAMBDA d, e :
        {<<d, e>>, <<d, BumpLo(e)>>, <<d, BumpHi(e)>>, <<BumpLo(d), e>>,
         <<BumpHi(d), e>>, <<e, d>>}))

InitMul512 == InitMul

\* One call of mul_add_words_512.
MulAddWords512 ==
    /\ ret = NoRet
    /\ \E i \in 1 .. MaxMulSamples, j \in 1 .. MaxMulSamples, k \in {1, 3, 6} :
          \E p \in ResultPairs(SampleWords[i], SampleWords[j], SampleWords[k]) :
             /\ i <= Len(SampleWords)
             /\ j <= Len(SampleWords)
             /\ call' = [op |-> "mul_add_words_512", a |-> SampleWords[i],
                         b |-> SampleWords[j], c |-> SampleWords[k],
                         d |-> p[1], e |-> p[2], log_at |-> Len(log)]
             /\ ret' = mul_add_words_512(SampleWords[i], SampleWords[j],
                                         SampleWords[k], p[1], p[2])
    /\ UNCHANGED <<curr, next, offsets, rw_table, reversion_info, log,
                   steps, elsewhere>>

NextMul512 == MulAddWords512

SpecMul512 == InitMul512 /\ [][NextMul512]_vars

(***************************************************************************)
(* Memory expansion.                                                       *)
(***************************************************************************)

\* util.N_BYTES_MEMORY_SIZE
N_BYTES_MEMORY_SIZE == 4

\* util.MEMORY_EXPANSION_QUAD_DENOMINATOR and
\* util.MEMORY_EXPANSION_LINEAR_COEFF
MEMORY_EXPANSION_QUAD_DENOMINATOR == 512

MEMORY_EXPANSION_LINEAR_COEFF == 3

\* Instruction.constant_divmod: (quotient, remainder), the quotient range
\* checked.
constant_divmod(numerator, denominator, n_bytes) ==
    Bind(range_check(FQInt(numerator \div denominator), n_bytes),
         LAMBDA checked :
             IF checked.status # "ok" THEN Raise(checked.status)
             ELSE Ok(<<numerator \div denominator, numerator % denominator>>))

\* Instruction.select
select(condition, when_true, when_false) ==
    IF condition \notin {0, 1} THEN Raise("AssertionError")
    ELSE Ok(IF condition = 1 THEN when_true ELSE when_false)

\* max returning the smaller of the two.
max_Smaller(lhs, rhs, n_bytes) ==
    Bind(compare(FQInt(lhs), FQInt(rhs), n_bytes),
         LAMBDA c : IF c.status # "ok" THEN c
                    ELSE select(c.value[1], lhs, rhs))

\* Instruction.max
max(lhs, rhs, n_bytes) ==
    Bind(compare(FQInt(lhs), FQInt(rhs), n_bytes),
         LAMBDA c : IF c.status # "ok" THEN c
                    ELSE select(c.value[1], rhs, lhs))

\* memory_gas_cost with the quadratic cost rounded up.
memory_gas_cost_QuadraticRoundedUp(memory_size) ==
    Bind(constant_divmod(memory_size * memory_size
                             + MEMORY_EXPANSION_QUAD_DENOMINATOR - 1,
                         MEMORY_EXPANSION_QUAD_DENOMINATOR, N_BYTES_GAS),
         LAMBDA q : IF q.status # "ok" THEN q
                    ELSE Ok(q.value[1]
                            + memory_size * MEMORY_EXPANSION_LINEAR_COEFF))

\* Instruction.memory_gas_cost
memory_gas_cost(memory_size) ==
    Bind(constant_divmod(memory_size * memory_size,
                         MEMORY_EXPANSION_QUAD_DENOMINATOR, N_BYTES_GAS),
         LAMBDA q : IF q.status # "ok" THEN q
                    ELSE Ok(q.value[1]
                            + memory_size * MEMORY_EXPANSION_LINEAR_COEFF))

\* Instruction.memory_expansion: (next_memory_size,
\* memory_expansion_gas_cost), or the failure of the first check that does
\* not hold.
memory_expansion(offset, length) ==
    Bind(constant_divmod(length + offset + 31, 32, N_BYTES_MEMORY_SIZE),
         LAMBDA memory_size :
    IF memory_size.status # "ok" THEN memory_size ELSE
    Bind(max(curr.memory_word_size, memory_size.value[1],
             N_BYTES_MEMORY_SIZE),
         LAMBDA next_memory_size :
    IF next_memory_size.status # "ok" THEN next_memory_size ELSE
    Bind2(memory_gas_cost(curr.memory_word_size),
          memory_gas_cost(next_memory_size.value),
          LAMBDA cost, cost_next :
    IF cost.status # "ok" THEN cost
    ELSE IF cost_next.status # "ok" THEN cost_next
    ELSE Ok(<<next_memory_size.value, cost_next.value - cost.value>>))))

\* memory_expansion_dynamic_length taking the larger of the two regions
\* without regard to the memory the step has already.
memory_expansion_dynamic_length_CurrentSizeIgnored(cd_offset, cd_length, rd_offset, rd_length) ==
    Bind(constant_divmod(cd_offset + cd_length + 31, 32, N_BYTES_MEMORY_SIZE),
         LAMBDA cd_memory_size :
    IF cd_memory_size.status # "ok" THEN cd_memory_size ELSE
    Bind(IF rd_offset # None /\ rd_length # None
         THEN Bind(constant_divmod(rd_offset[1] + rd_length[1] + 31, 32,
                                   N_BYTES_MEMORY_SIZE),
                   LAMBDA rd_memory_size :
                       IF rd_memory_size.status # "ok" THEN rd_memory_size
                       ELSE max(cd_memory_size.value[1],
                                rd_memory_size.value[1], N_BYTES_MEMORY_SIZE))
         ELSE Ok(cd_memory_size.value[1]),
         LAMBDA next_memory_size :
    IF next_memory_size.status # "ok" THEN next_memory_size ELSE
    Bind2(memory_gas_cost(curr.memory_word_size),
          memory_gas_cost(next_memory_size.value),
          LAMBDA cost, cost_next :
    IF cost.status # "ok" THEN cost
    ELSE IF cost_next.status # "ok" THEN cost_next
    ELSE Ok(<<next_memory_size.value, cost_next.value - cost.value>>))))

\* Instruction.memory_expansion_dynamic_length. rd_offset and rd_length are
\* None or Some(n); the return-data region counts if both are given.
memory_expansion_dynamic_length(cd_offset, cd_length, rd_offset, rd_length) ==
    Bind(constant_divmod(cd_offset + cd_length + 31, 32, N_BYTES_MEMORY_SIZE),
         LAMBDA cd_memory_size :
    IF cd_memory_size.status # "ok" THEN cd_memory_size ELSE
    Bind(max(curr.memory_word_size, cd_memory_size.value[1],
             N_BYTES_MEMORY_SIZE),
         LAMBDA with_cd :
    IF with_cd.status # "ok" THEN with_cd ELSE
    Bind(IF rd_offset # None /\ rd_length # None
         THEN Bind(constant_divmod(rd_offset[1] + rd_length[1] + 31, 32,
                                   N_BYTES_MEMORY_SIZE),
                   LAMBDA rd_memory_size :
                       IF rd_memory_size.status # "ok" THEN rd_memory_size
                       ELSE max(with_cd.value, rd_memory_size.value[1],
                                N_BYTES_MEMORY_SIZE))
         ELSE with_cd,
         LAMBDA next_memory_size :
    IF next_memory_size.status # "ok" THEN next_memory_size ELSE
    Bind2(memory_gas_cost(curr.memory_word_size),
          memory_gas_cost(next_memory_size.value),
          LAMBDA cost, cost_next :
    IF cost.status # "ok" THEN cost
    ELSE IF cost_next.status # "ok" THEN cost_next
    ELSE Ok(<<next_memory_size.value, cost_next.value - cost.value>>)))))

(***************************************************************************)
(* Specification SpecMem: one call of memory_expansion or of               *)
(* memory_expansion_dynamic_length by a step whose memory is 0, 1, 2 or 40 *)
(* words.                                                                  *)
(***************************************************************************)

InitMem ==
    /\ \E words \in {0, 1, 2, 40} :
          curr = [StepState("GASPRICE") EXCEPT !.memory_word_size = words]
    /\ next = StepState("STOP")
    /\ rw_counter_offset = 0
    /\ program_counter_offset = 0
    /\ stack_pointer_offset = 0
    /\ log_index_offset = 0
    /\ rw_table = {}
    /\ reversion_info = None
    /\ call = NoCall
    /\ ret = NoRet
    /\ log = <<>>
    /\ steps = <<"GASPRICE">>
    /\ default_transitions = DefaultTransitions
    /\ suspended = None

\* One call of memory_expansion.
MemoryExpansion ==
    /\ ret = NoRet
    /\ \E offset \in {0, 1, 31, 32, 33, 64, 1000}, length \in {0, 1, 32, 33} :
          /\ call' = [op |-> "memory_expansion", offset |-> offset,
                      length |-> length, log_at |-> Len(log)]
          /\ ret' = memory_expansion(offset, length)
    /\ UNCHANGED <<curr, next, offsets, rw_table, reversion_info, log,
                   steps, elsewhere>>

\* One call of memory_expansion_dynamic_length, with the return-data region
\* given, half given or left out.
MemoryExpansionDynamicLength ==
    /\ ret = NoRet
    /\ \E cd_offset \in {0, 31, 64, 1000}, cd_length \in {0, 1, 33},
          rd_offset \in {None, Some(0), Some(96)},
          rd_length \in {None, Some(0), Some(32)} :
          /\ call' = [op |-> "memory_expansion_dynamic_length",
                      cd_offset |-> cd_offset, cd_length |-> cd_length,
                      rd_offset |-> rd_offset, rd_length |-> rd_length,
                      log_at |-> Len(log)]
          /\ ret' = memory_expansion_dynamic_length(cd_offset, cd_length,
                                                    rd_offset, rd_length)
    /\ UNCHANGED <<curr, next, offsets, rw_table, reversion_info, log,
                   steps, elsewhere>>

NextMem == MemoryExpansion \/ MemoryExpansionDynamicLength

SpecMem == InitMem /\ [][NextMem]_vars

(***************************************************************************)
(* The constraints and the kind of failure each one raises.                *)
(***************************************************************************)

\* Instruction.constrain_in: a failed assert, its message a
\* ConstraintUnsatFailure object.
constrain_in(lhs, rhs) ==
    IF \E i \in 1 .. Len(rhs) : rhs[i] = lhs THEN Ok(None)
    ELSE Raise("AssertionError")

\* Instruction.constrain_bool
constrain_bool(num) ==
    IF num \in {<<>>, <<1>>} THEN Ok(None) ELSE Raise("AssertionError")

(***************************************************************************)
(* Specification SpecConstrain: one call of a constraint, of compare, of   *)
(* constrain_step_state_transition or of                                   *)
(* constrain_execution_state_transition on a pair of steps.                *)
(***************************************************************************)

\* The field elements SpecConstrain passes: 0, 1, 2, 255, 256, 2^64.
ConstrainValues == <<<<>>, <<1>>, <<2>>, <<255>>, <<0, 1>>, Pow64>>

InitConstrain ==
    /\ \E c \in ExecutionStates, n \in ExecutionStates :
          /\ curr = [StepState(c) EXCEPT
                        !.rw_counter = BaseRwCounter, !.call_id = 1,
                        !.is_root = 1, !.code_hash = [lo |-> 7, hi |-> 8],
                        !.gas_left = 2]
          /\ \E g \in 0 .. 2 :
                next = [StepState(n) EXCEPT
                           !.rw_counter = BaseRwCounter + 2, !.call_id = 1,
                           !.is_root = 1, !.code_hash = [lo |-> 7, hi |-> 8],
                           !.program_counter = 1, !.stack_pointer = 1023,
                           !.gas_left = g]
          /\ steps = <<c>>
          /\ default_transitions = DefaultTransitions
          /\ suspended = None
    /\ rw_counter_offset = 0
    /\ program_counter_offset = 0
    /\ stack_pointer_offset = 0
    /\ log_index_offset = 0
    /\ rw_table = {}
    /\ reversion_info = None
    /\ call = NoCall
    /\ ret = NoRet
    /\ log = <<>>

\* One call of constrain_zero.
ConstrainZero ==
    /\ ret = NoRet
    /\ \E i \in 1 .. Len(ConstrainValues) :
          /\ call' = [op |-> "constrain_zero", value |-> ConstrainValues[i]]
          /\ ret' = constrain_zero(ConstrainValues[i])
    /\ UNCHANGED <<curr, next, offsets, rw_table, reversion_info, log,
                   steps, elsewhere>>

\* One call of constrain_equal.
ConstrainEqual ==
    /\ ret = NoRet
    /\ \E i \in 1 .. Len(ConstrainValues), j \in 1 .. Len(ConstrainValues) :
          /\ call' = [op |-> "constrain_equal", lhs |-> ConstrainValues[i],
                      rhs |-> ConstrainValues[j]]
          /\ ret' = constrain_equal(ConstrainValues[i], ConstrainValues[j])
    /\ UNCHANGED <<curr, next, offsets, rw_table, reversion_info, log,
                   steps, elsewhere>>

\* One call of constrain_in, the list being a run of the values.
ConstrainIn ==
    /\ ret = NoRet
    /\ \E i \in 1 .. Len(ConstrainValues), m \in 1 .. Len(ConstrainValues),
          n \in 0 .. Len(ConstrainValues) :
          /\ call' = [op |-> "constrain_in", lhs |-> ConstrainValues[i],
                      rhs |-> SubSeq(ConstrainValues, m, n)]
          /\ ret' = constrain_in(ConstrainValues[i],
                                 SubSeq(ConstrainValues, m, n))
    /\ UNCHANGED <<curr, next, offsets, rw_table, reversion_info, log,
                   steps, elsewhere>>

\* One call of constrain_bool.
ConstrainBool ==
    /\ ret = NoRet
    /\ \E i \in 1 .. Len(ConstrainValues) :
          /\ call' = [op |-> "constrain_bool", num |-> ConstrainValues[i]]
          /\ ret' = constrain_bool(ConstrainValues[i])
    /\ UNCHANGED <<curr, next, offsets, rw_table, reversion_info, log,
                   steps, elsewhere>>

\* One call of compare.
Compare ==
    /\ ret = NoRet
    /\ \E i \in 1 .. Len(ConstrainValues), j \in 1 .. Len(ConstrainValues),
          n_bytes \in {1, 8, 31, 32} :
          /\ call' = [op |-> "compare", lhs |-> ConstrainValues[i],
                      rhs |-> ConstrainValues[j], n_bytes |-> n_bytes]
          /\ ret' = compare(ConstrainValues[i], ConstrainValues[j], n_bytes)
    /\ UNCHANGED <<curr, next, offsets, rw_table, reversion_info, log,
                   steps, elsewhere>>

\* One call of range_check.
RangeCheck ==
    /\ ret = NoRet
    /\ \E i \in 1 .. Len(ConstrainValues), n_bytes \in {1, 2, 9, 31, 32} :
          /\ call' = [op |-> "range_check", value |-> ConstrainValues[i],
                      n_bytes |-> n_bytes]
          /\ ret' = range_check(ConstrainValues[i], n_bytes)
    /\ UNCHANGED <<curr, next, offsets, rw_table, reversion_info, log,
                   steps, elsewhere>>

NextConstrain ==
    \/ ConstrainZero
    \/ ConstrainEqual
    \/ ConstrainIn
    \/ ConstrainBool
    \/ Compare
    \/ RangeCheck
    \/ ConstrainStepStateTransition
    \/ ConstrainExecutionStateTransition

SpecConstrain == InitConstrain /\ [][NextConstrain]_vars

(***************************************************************************)
(* The cursors of one step: stack, bytecode and explicit-counter lookups.  *)
(***************************************************************************)

\* The rows of the bytecode table for GASPRICE STOP, the bytecode of
\* tests/evm/test_gasprice.py, under BytecodeFieldTag.Byte.
BytecodeRows ==
    {[index |-> 0, is_code |-> 1, value |-> OpGASPRICE],
     [index |-> 1, is_code |-> 1, value |-> OpSTOP]}

\* Tables.bytecode_lookup for the bytecode of the step: the unique row
\* matching the query, or a failure of the step. The query is logged.
tables_bytecode_lookup(ctx, bytecode_hash, index, is_code) ==
    LET matched == {r \in BytecodeRows :
                       r.index = index /\ r.is_code = is_code}
        found == bytecode_hash = [lo |-> 7, hi |-> 8]
                 /\ Cardinality(matched) = 1
    IN  [ctx EXCEPT
            !.log = Append(@, [ev |-> "bytecode_lookup", index |-> index,
                               is_code |-> is_code]),
            !.status = IF found THEN "ok" ELSE "LookupUnsatFailure",
            !.val = IF found THEN (CHOOSE r \in matched : TRUE).value
                    ELSE None]

\* Instruction.opcode_lookup_at
opcode_lookup_at(ctx, index, is_code) ==
    tables_bytecode_lookup(ctx, curr.code_hash, index, is_code)

\* Instruction.opcode_lookup: the byte at the program counter plus the
\* offset, which advances before the table is asked.
opcode_lookup(ctx, is_code) ==
    opcode_lookup_at([ctx EXCEPT !.program_counter_offset = @ + 1],
                     curr.program_counter + ctx.program_counter_offset,
                     is_code)

\* Instruction.stack_lookup; offset is its argument stack_pointer_offset.
stack_lookup(ctx, rw, offset) ==
    Bind(rw_lookup(ctx, rw, "Stack",
                   [NoKeys EXCEPT
                       !.id = Some(curr.call_id),
                       !.address = Some(curr.stack_pointer + offset)],
                   None),
         LAMBDA c : IF c.status = "ok" THEN [c EXCEPT !.val = c.val[1].value]
                    ELSE c)

\* Instruction.stack_pop
stack_pop(ctx) ==
    stack_lookup([ctx EXCEPT !.stack_pointer_offset = @ + 1], "Read",
                 ctx.stack_pointer_offset)

\* stack_push writing the slot of the offset before the decrement.
stack_push_BeforeDecrement(ctx) ==
    stack_lookup([ctx EXCEPT !.stack_pointer_offset = @ - 1], "Write",
                 ctx.stack_pointer_offset)

\* Instruction.stack_push
stack_push(ctx) ==
    stack_lookup([ctx EXCEPT !.stack_pointer_offset = @ - 1], "Write",
                 ctx.stack_pointer_offset - 1)

\* Instruction.rw_table_start_lookup
rw_table_start_lookup(ctx, counter) ==
    Bind(rw_lookup(ctx, "Read", "Start", NoKeys, Some(counter)),
         LAMBDA c : [c EXCEPT !.val = None])

(***************************************************************************)
(* Specification SpecLookup: up to MaxOps operations of one step, each a   *)
(* stack_pop, stack_push, call_context_lookup, opcode_lookup,              *)
(* rw_table_start_lookup or state_write, in any order. The RW table holds  *)
(* a Start row and the rows of a step that makes MaxOps lookups, a kind of *)
(* row chosen for each; an operation that asks for another row fails the   *)
(* step.                                                                   *)
(***************************************************************************)

\* Most operations one step performs in SpecLookup.
MaxOps == 3

\* The kinds of row a step leaves in the RW table.
RowKinds == {"pop", "push", "context", "write"}

\* The stack pointer offset after the first k rows of the kinds prog.
OffsetAfter(prog, k) ==
    Cardinality({i \in 1 .. k : prog[i] = "pop"})
    - Cardinality({i \in 1 .. k : prog[i] = "push"})

\* The k-th row of the step (k from 1) for the kinds prog.
LookupRow(prog, k, stack_pointer) ==
    LET row == [rw_counter |-> BaseRwCounter + k - 1, rw |-> "Read",
                tag |-> "Stack", id |-> 1, address |-> 0, field_tag |-> 0,
                storage_key |-> 0, value |-> ValueOf(k),
                value_prev |-> ValueOf(0), aux0 |-> 0]
    IN  CASE prog[k] = "pop" ->
                [row EXCEPT !.address = stack_pointer
                                        + OffsetAfter(prog, k - 1)]
          [] prog[k] = "push" ->
                [row EXCEPT !.rw = "Write",
                            !.address = stack_pointer + OffsetAfter(prog, k)]
          [] prog[k] = "context" ->
                [row EXCEPT !.tag = "CallContext",
                            !.address = FieldTagValue("TxId")]
          [] prog[k] = "write" ->
                [row EXCEPT !.rw = "Write", !.tag = "Account",
                            !.address = 254, !.field_tag = 2,
                            !.value_prev = ValueOf(9)]

\* The row of RWTableTag.Start the table begins with.
StartRow ==
    [rw_counter |-> 0, rw |-> "Read", tag |-> "Start", id |-> 0,
     address |-> 0, field_tag |-> 0, storage_key |-> 0, value |-> ValueOf(0),
     value_prev |-> ValueOf(0), aux0 |-> 0]

InitLookup ==
    /\ \E stack_pointer \in {1022, 1024} :
          /\ curr = [StepState("GASPRICE") EXCEPT
                        !.rw_counter = BaseRwCounter, !.call_id = 1,
                        !.is_root = 1, !.code_hash = [lo |-> 7, hi |-> 8],
                        !.stack_pointer = stack_pointer, !.gas_left = 2]
          /\ reversion_info \in
                {None} \cup
                {Some([rw_counter_end_of_reversion |-> EndOfReversion,
                       is_persistent |-> p, reversible_write_counter |-> 0]) :
                    p \in {0, 1}}
          /\ \E prog \in [1 .. MaxOps -> RowKinds] :
                LET rows == {LookupRow(prog, k, stack_pointer) :
                                k \in 1 .. MaxOps}
                    writes == {r \in rows : r.tag = "Account"}
                IN  /\ \A r \in rows : r.tag = "Stack" => r.address < 1024
                    /\ rw_table =
                          {StartRow} \cup rows \cup
                          UNION {MirrorRows(
                                     r,
                                     EndOfReversion
                                       - Cardinality({w \in writes :
                                             w.rw_counter < r.rw_counter}),
                                     "swapped") : r \in writes}
    /\ next = StepState("STOP")
    /\ rw_counter_offset = 0
    /\ program_counter_offset = 0
    /\ stack_pointer_offset = 0
    /\ log_index_offset = 0
    /\ call = NoCall
    /\ ret = NoRet
    /\ log = <<>>
    /\ steps = <<"GASPRICE">>
    /\ default_transitions = DefaultTransitions
    /\ suspended = None

\* The context an operation of SpecLookup starts from: the call is logged.
Called(op) == [Ctx EXCEPT !.log = Append(@, [ev |-> "call", op |-> op])]

\* What every operation of SpecLookup leaves behind: its outcome and the
\* Instruction's offsets.
Returned(op, c) ==
    /\ call' = [op |-> op, log_at |-> Len(log) + 1]
    /\ ret' = RetOf(c)
    /\ rw_counter_offset' = c.rw_counter_offset
    /\ program_counter_offset' = c.program_counter_offset
    /\ stack_pointer_offset' = c.stack_pointer_offset
    /\ reversion_info' = c.reversion_info
    /\ log' = c.log
    /\ UNCHANGED <<curr, next, log_index_offset, rw_table, steps, elsewhere>>

\* One call of stack_pop.
StackPop ==
    /\ Running
    /\ NumCalls < MaxOps
    /\ Returned("stack_pop", stack_pop(Called("stack_pop")))

\* One call of stack_push.
StackPush ==
    /\ Running
    /\ NumCalls < MaxOps
    /\ Returned("stack_push", stack_push(Called("stack_push")))

\* One call of call_context_lookup(CallContextFieldTag.TxId).
CallContextLookup ==
    /\ Running
    /\ NumCalls < MaxOps
    /\ Returned("call_context_lookup",
                call_context_lookup(Called("call_context_lookup"), "TxId",
                                    "Read", None))

\* One call of opcode_lookup(True).
OpcodeLookup ==
    /\ Running
    /\ NumCalls < MaxOps
    /\ Returned("opcode_lookup", opcode_lookup(Called("opcode_lookup"), 1))

\* One call of rw_table_start_lookup, at the counter of the Start row or
\* at another one.
RwTableStartLookup ==
    /\ Running
    /\ NumCalls < MaxOps
    /\ \E counter \in 0 .. 1 :
          Returned("rw_table_start_lookup",
                   rw_table_start_lookup(Called("rw_table_start_lookup"),
                                         counter))

\* One call of state_write on the account, with or without the
\* reversion_info argument.
StateWriteAccount ==
    /\ Running
    /\ NumCalls < MaxOps
    /\ \E with_info \in BOOLEAN :
          /\ with_info => reversion_info # None
          /\ Returned("state_write",
                      state_write(Called("state_write"), "Account",
                                  [NoKeys EXCEPT !.field_tag = Some(2)],
                                  with_info))

NextLookup ==
    \/ StackPop
    \/ StackPush
    \/ CallContextLookup
    \/ OpcodeLookup
    \/ RwTableStartLookup
    \/ StateWriteAccount

SpecLookup == InitLookup /\ [][NextLookup]_vars

(***************************************************************************)
(* The ReversionInfo of a call, read from its call context.                *)
(***************************************************************************)

\* Instruction.reversion_info counting from the current step's reversible
\* writes whoever the call is.
Instruction_reversion_info_CountsFromCurr(ctx, call_id) ==
    Bind(call_context_lookup(ctx, "RwCounterEndOfReversion", "Read", call_id),
         LAMBDA c1 :
    IF c1.status # "ok" THEN c1 ELSE
    Bind(call_context_lookup(c1, "IsPersistent", "Read", call_id),
         LAMBDA c2 :
    IF c2.status # "ok" THEN c2 ELSE
    [c2 EXCEPT !.val =
        [rw_counter_end_of_reversion |-> c1.val,
         is_persistent |-> c2.val,
         reversible_write_counter |-> curr.reversible_write_counter]]))

\* Instruction.reversion_info (the name reversion_info is the variable that
\* holds the object). call_id is None or Some(id); the value is the
\* ReversionInfo constructed.
Instruction_reversion_info(ctx, call_id) ==
    Bind(call_context_lookup(ctx, "RwCounterEndOfReversion", "Read", call_id),
         LAMBDA c1 :
    IF c1.status # "ok" THEN c1 ELSE
    Bind(call_context_lookup(c1, "IsPersistent", "Read", call_id),
         LAMBDA c2 :
    IF c2.status # "ok" THEN c2 ELSE
    [c2 EXCEPT !.val =
        [rw_counter_end_of_reversion |-> c1.val,
         is_persistent |-> c2.val,
         reversible_write_counter |->
             IF call_id = None THEN curr.reversible_write_counter ELSE 0]]))

(***************************************************************************)
(* Specification SpecInfo: a step of call 1 that builds a ReversionInfo    *)
(* with reversion_info() and makes a reversible write with it, in up to    *)
(* MaxWrites operations. The RW table holds the two call-context rows of   *)
(* call 1 or of call 2, in the order read or the other way round, then the *)
(* row of an account write and its mirror row.                             *)
(***************************************************************************)

InitInfo ==
    /\ \E counted \in {0, 2} :
          curr = [StepState("GASPRICE") EXCEPT
                     !.rw_counter = BaseRwCounter, !.call_id = 1,
                     !.is_root = 1, !.reversible_write_counter = counted]
    /\ \E owner \in 1 .. 2, p \in 0 .. 1, in_order \in BOOLEAN,
          mirrored_at \in {0, 2} :
          LET write == [rw_counter |-> BaseRwCounter + 2, rw |-> "Write",
                        tag |-> "Account", id |-> 0, address |-> 254,
                        field_tag |-> 2, storage_key |-> 0,
                        value |-> ValueOf(5), value_prev |-> ValueOf(3),
                        aux0 |-> 0]
          IN  rw_table =
                {CallContextRow(
                     BaseRwCounter + (IF in_order THEN 0 ELSE 1), "Read",
                     owner, "RwCounterEndOfReversion",
                     ValueOf(EndOfReversion)),
                 CallContextRow(
                     BaseRwCounter + (IF in_order THEN 1 ELSE 0), "Read",
                     owner, "IsPersistent", ValueOf(p)),
                 write}
                \cup MirrorRows(write, EndOfReversion - mirrored_at, "swapped")
    /\ next = StepState("STOP")
    /\ rw_counter_offset = 0
    /\ program_counter_offset = 0
    /\ stack_pointer_offset = 0
    /\ log_index_offset = 0
    /\ reversion_info = None
    /\ call = NoCall
    /\ ret = NoRet
    /\ log = <<>>
    /\ steps = <<"GASPRICE">>
    /\ default_transitions = DefaultTransitions
    /\ suspended = None

\* One call of reversion_info, for the current call or for a call named.
\* The object it returns is the one later writes are given.
ReversionInfoOfCall ==
    /\ Running
    /\ NumCalls < MaxWrites
    /\ \E call_id \in {None, Some(1), Some(2)} :
          LET c0 == [Ctx EXCEPT
                        !.log = Append(@, [ev |-> "call",
                                           op |-> "reversion_info",
                                           with_info |-> FALSE,
                                           call_id |-> call_id])]
              c == Instruction_reversion_info(c0, call_id)
          IN  /\ call' = [op |-> "reversion_info", call_id |-> call_id,
                          offset_at |-> rw_counter_offset,
                          log_at |-> Len(log) + 1]
              /\ ret' = IF c.status = "ok" THEN Ok(None) ELSE RetOf(c)
              /\ rw_counter_offset' = c.rw_counter_offset
              /\ reversion_info' = IF c.status = "ok" THEN Some(c.val)
                                   ELSE reversion_info
              /\ log' = c.log
    /\ UNCHANGED <<curr, next, program_counter_offset, stack_pointer_offset,
                   log_index_offset, rw_table, steps, elsewhere>>

\* One call of state_write on the account, given the ReversionInfo built
\* or none.
StateWriteOfCall ==
    /\ Running
    /\ NumCalls < MaxWrites
    /\ \E with_info \in BOOLEAN :
          /\ with_info => reversion_info # None
          /\ LET c0 == [Ctx EXCEPT
                           !.log = Append(@, [ev |-> "call",
                                              op |-> "state_write",
                                              with_info |-> with_info])]
                 c == state_write(c0, "Account",
                                  [NoKeys EXCEPT !.field_tag = Some(2)],
                                  with_info)
             IN  /\ call' = [op |-> "state_write", with_info |-> with_info,
                             log_at |-> Len(log) + 1]
                 /\ ret' = RetOf(c)
                 /\ rw_counter_offset' = c.rw_counter_offset
                 /\ reversion_info' = c.reversion_info
                 /\ log' = c.log
    /\ UNCHANGED <<curr, next, program_counter_offset, stack_pointer_offset,
                   log_index_offset, rw_table, steps, elsewhere>>

NextInfo == ReversionInfoOfCall \/ StateWriteOfCall

SpecInfo == InitInfo /\ [][NextInfo]_vars

(***************************************************************************)
(* Balances and transfers.                                                 *)
(***************************************************************************)

\* Instruction.constrain_equal_word
constrain_equal_word(lhs, rhs) ==
    IF lhs.lo = rhs.lo /\ lhs.hi = rhs.hi THEN Ok(None)
    ELSE Raise("AssertionError")

\* Instruction.account_write_word: the value and the previous value of the
\* row state_write returns.
account_write_word(ctx, account_address, account_field_tag, with_info) ==
    Bind(state_write(ctx, "Account",
                     [NoKeys EXCEPT !.address = Some(account_address),
                                    !.field_tag = Some(account_field_tag)],
                     with_info),
         LAMBDA c :
             IF c.status # "ok" THEN c
             ELSE [c EXCEPT !.val = <<c.val[1].value, c.val[1].value_prev>>])

\* The balance pair of the write if the sum the row must equal is the word
\* named and carries nothing; the failure of the first constraint otherwise.
BalanceChecked(c, word, addends) ==
    Bind(add_words(addends), LAMBDA sum :
    Bind(FirstFailure(<<constrain_equal_word(word, sum[1]),
                        constrain_zero(sum[2])>>, None),
         LAMBDA checked :
             IF checked.status = "ok" THEN c
             ELSE [c EXCEPT !.status = checked.status, !.val = None]))

\* Instruction.add_balance. The field tag is FQ(AccountFieldTag.Balance).
add_balance(ctx, account_address, values, with_info) ==
    Bind(account_write_word(ctx, account_address, 2, with_info),
         LAMBDA c :
             IF c.status # "ok" THEN c
             ELSE BalanceChecked(c, c.val[1], <<c.val[2]>> \o values))

\* sub_balance without the constraint on the carry of the sum.
sub_balance_CarryFree(ctx, account_address, values, with_info) ==
    Bind(account_write_word(ctx, account_address, 2, with_info),
         LAMBDA c :
             IF c.status # "ok" THEN c
             ELSE IF constrain_equal_word(
                         c.val[2],
                         add_words(<<c.val[1]>> \o values)[1]).status = "ok"
             THEN c
             ELSE [c EXCEPT !.status = "AssertionError", !.val = None])

\* Instruction.sub_balance
sub_balance(ctx, account_address, values, with_info) ==
    Bind(account_write_word(ctx, account_address, 2, with_info),
         LAMBDA c :
             IF c.status # "ok" THEN c
             ELSE BalanceChecked(c, c.val[2], <<c.val[1]>> \o values))

\* Instruction.transfer_with_gas_fee: the balance pairs of the sender and of
\* the receiver.
transfer_with_gas_fee(ctx, sender_address, receiver_address, value, gas_fee, with_info) ==
    Bind(sub_balance(ctx, sender_address, <<value, gas_fee>>, with_info),
         LAMBDA c1 :
    IF c1.status # "ok" THEN c1 ELSE
    Bind(add_balance(c1, receiver_address, <<value>>, with_info),
         LAMBDA c2 :
    IF c2.status # "ok" THEN c2
    ELSE [c2 EXCEPT !.val = <<c1.val, c2.val>>]))

\* Instruction.transfer
transfer(ctx, sender_address, receiver_address, value, with_info) ==
    Bind(sub_balance(ctx, sender_address, <<value>>, with_info),
         LAMBDA c1 :
    IF c1.status # "ok" THEN c1 ELSE
    Bind(add_balance(c1, receiver_address, <<value>>, with_info),
         LAMBDA c2 :
    IF c2.status # "ok" THEN c2
    ELSE [c2 EXCEPT !.val = <<c1.val, c2.val>>]))

(***************************************************************************)
(* Specification SpecTransfer: one call of transfer or of                  *)
(* transfer_with_gas_fee from account 254 to account 255. The RW table     *)
(* holds the balance row of the sender, then that of the receiver, and     *)
(* their mirror rows; the balances written are right for some amounts,     *)
(* wrong for others, and right only modulo 2^256 for some.                 *)
(***************************************************************************)

\* 2^128 - 1, 2^128 + 4 and 2^256 - 1.
LowHalfMax == BigSub(Pow128, <<1>>)

LowHalfCarried == BigAdd(Pow128, <<4>>)

WordMax == BigSub(Pow256, <<1>>)

\* (balance, balance_prev) of the sender's row.
SenderBalances ==
    {<<<<>>, <<5>>>>, <<<<5>>, <<10>>>>, <<<<>>, <<10>>>>,
     <<LowHalfMax, LowHalfCarried>>, <<WordMax, <<4>>>>, <<<<5>>, <<5>>>>,
     <<<<10>>, <<5>>>>}

\* (balance, balance_prev) of the receiver's row.
ReceiverBalances ==
    {<<<<5>>, <<>>>>, <<<<10>>, <<5>>>>, <<LowHalfCarried, LowHalfMax>>,
     <<<<4>>, WordMax>>, <<<<5>>, <<5>>>>, <<<<>>, <<5>>>>,
     <<<<10>>, <<>>>>}

\* The amounts transferred and the gas fees.
Amounts == {<<>>, <<5>>}

\* The balance row of the account at the counter.
BalanceRow(rw_counter, address, balances) ==
    [rw_counter |-> rw_counter, rw |-> "Write", tag |-> "Account", id |-> 0,
     address |-> address, field_tag |-> 2, storage_key |-> 0,
     value |-> WordOf(balances[1]), value_prev |-> WordOf(balances[2]),
     aux0 |-> 0]

InitTransfer ==
    /\ curr = [StepState("GASPRICE") EXCEPT
                  !.rw_counter = BaseRwCounter, !.call_id = 1, !.is_root = 1]
    /\ next = StepState("STOP")
    /\ rw_counter_offset = 0
    /\ program_counter_offset = 0
    /\ stack_pointer_offset = 0
    /\ log_index_offset = 0
    /\ reversion_info \in ReversionInfos
    /\ \E s \in SenderBalances, r \in ReceiverBalances :
          LET c0 == IF reversion_info = None THEN 0
                    ELSE reversion_info[1].reversible_write_counter
              sender == BalanceRow(BaseRwCounter, 254, s)
              receiver == BalanceRow(BaseRwCounter + 1, 255, r)
          IN  rw_table =
                {sender, receiver}
                \cup MirrorRows(sender, EndOfReversion - c0, "swapped")
                \cup MirrorRows(receiver, EndOfReversion - (c0 + 1),
                                "swapped")
    /\ call = NoCall
    /\ ret = NoRet
    /\ log = <<>>
    /\ steps = <<"GASPRICE">>
    /\ default_transitions = DefaultTransitions
    /\ suspended = None

\* What a transfer leaves behind: its outcome, the cursor and the
\* ReversionInfo.
Transferred(op, value, gas_fee, with_info, c) ==
    /\ call' = [op |-> op, value |-> value, gas_fee |-> gas_fee,
                with_info |-> with_info, info_at |-> reversion_info,
                offset_at |-> rw_counter_offset, log_at |-> Len(log)]
    /\ ret' = RetOf(c)
    /\ rw_counter_offset' = c.rw_counter_offset
    /\ reversion_info' = c.reversion_info
    /\ log' = c.log
    /\ UNCHANGED <<curr, next, program_counter_offset, stack_pointer_offset,
                   log_index_offset, rw_table, steps, elsewhere>>

\* One call of transfer, given the ReversionInfo or none.
Transfer ==
    /\ ret = NoRet
    /\ \E amount \in Amounts, with_info \in BOOLEAN :
          /\ with_info => reversion_info # None
          /\ Transferred("transfer", WordOf(amount), WordOf(<<>>), with_info,
                         transfer(Ctx, 254, 255, WordOf(amount), with_info))

\* One call of transfer_with_gas_fee, given the ReversionInfo or none.
TransferWithGasFee ==
    /\ ret = NoRet
    /\ \E amount \in Amounts, fee \in Amounts, with_info \in BOOLEAN :
          /\ with_info => reversion_info # None
          /\ Transferred("transfer_with_gas_fee", WordOf(amount),
                         WordOf(fee), with_info,
                         transfer_with_gas_fee(Ctx, 254, 255, WordOf(amount),
                                               WordOf(fee), with_info))

NextTransfer == Transfer \/ TransferWithGasFee

SpecTransfer == InitTransfer /\ [][NextTransfer]_vars

(***************************************************************************)
(* Specification SpecShared: two Instructions, each verifying its own step *)
(* of the trace of tests/evm/test_gasprice.py, their operations            *)
(* interleaved in any order. One Instruction runs at a time; Switch hands  *)
(* the run to the other one. Both read the same tables and both are handed *)
(* the same default Transition objects.                                    *)
(***************************************************************************)

\* The GASPRICE step of the test and the STOP step after it.
GasPriceStep ==
    [StepState("GASPRICE") EXCEPT
        !.rw_counter = BaseRwCounter, !.call_id = 1, !.is_root = 1,
        !.code_hash = [lo |-> 7, hi |-> 8], !.stack_pointer = 1024,
        !.gas_left = 2]

StopStep ==
    [StepState("STOP") EXCEPT
        !.rw_counter = BaseRwCounter + 2, !.call_id = 1, !.is_root = 1,
        !.code_hash = [lo |-> 7, hi |-> 8], !.program_counter = 1,
        !.stack_pointer = 1023, !.gas_left = 0]

\* Instruction.__init__: the Instruction of the step (c, n). The offsets are
\* read from the class, where they are 0.
NewInstruction(c, n) ==
    [curr |-> c, next |-> n, rw_counter_offset |-> 0,
     program_counter_offset |-> 0, stack_pointer_offset |-> 0,
     log_index_offset |-> 0, reversion_info |-> None, call |-> NoCall,
     ret |-> NoRet, log |-> <<>>]

\* The Instruction that is running.
RunningInstruction ==
    [curr |-> curr, next |-> next, rw_counter_offset |-> rw_counter_offset,
     program_counter_offset |-> program_counter_offset,
     stack_pointer_offset |-> stack_pointer_offset,
     log_index_offset |-> log_index_offset,
     reversion_info |-> reversion_info, call |-> call, ret |-> ret,
     log |-> log]

\* The Instruction i becomes the running one.
Resume(i) ==
    /\ curr' = i.curr
    /\ next' = i.next
    /\ rw_counter_offset' = i.rw_counter_offset
    /\ program_counter_offset' = i.program_counter_offset
    /\ stack_pointer_offset' = i.stack_pointer_offset
    /\ log_index_offset' = i.log_index_offset
    /\ reversion_info' = i.reversion_info
    /\ call' = i.call
    /\ ret' = i.ret
    /\ log' = i.log

\* The rows the GASPRICE step leaves in the RW table: the read of the
\* transaction id and the write of the stack.
GasPriceRows ==
    LET prog == [k \in 1 .. MaxOps |-> IF k = 1 THEN "context" ELSE "push"]
    IN  {LookupRow(prog, k, 1024) : k \in 1 .. 2}

InitShared ==
    /\ curr = GasPriceStep
    /\ next = StopStep
    /\ rw_counter_offset = 0
    /\ program_counter_offset = 0
    /\ stack_pointer_offset = 0
    /\ log_index_offset = 0
    /\ reversion_info = None
    /\ call = NoCall
    /\ ret = NoRet
    /\ log = <<>>
    /\ suspended =
          Some(NewInstruction(StopStep,
                              [StopStep EXCEPT !.execution_state = "EndTx"]))
    /\ rw_table = {StartRow} \cup GasPriceRows
    /\ steps = <<"GASPRICE", "STOP">>
    /\ default_transitions = DefaultTransitions

\* The scheduler hands the run to the other Instruction.
Switch ==
    /\ suspended # None
    /\ suspended' = Some(RunningInstruction)
    /\ Resume(suspended[1])
    /\ UNCHANGED <<rw_table, steps, default_transitions>>

\* The verifier builds a new Instruction for the step of the running one.
Construct ==
    /\ call # NoCall
    /\ Resume(NewInstruction(curr, next))
    /\ UNCHANGED <<rw_table, steps, elsewhere>>

\* One call of step_state_transition_in_same_context on the running
\* Instruction with the opcode of its step, after its lookups; the
\* arguments left out are the default objects.
SameContextOfStep ==
    /\ Running
    /\ call.op # "step_state_transition_in_same_context"
    /\ \E keys \in SUBSET {"rw_counter", "program_counter", "stack_pointer"} :
          LET opcode == IF curr.execution_state = "GASPRICE"
                        THEN OpGASPRICE ELSE OpSTOP
              given == [key \in keys |-> SameContextPool(key)]
              c == step_state_transition_in_same_context(Ctx, opcode, given, 0)
          IN  /\ call' = [op |-> "step_state_transition_in_same_context",
                          opcode |-> opcode, given |-> given,
                          dynamic_gas_cost |-> 0, log_at |-> Len(log)]
              /\ ret' = RetOf(c)
              /\ log' = c.log
              /\ default_transitions' = c.default_transitions
    /\ UNCHANGED <<curr, next, offsets, rw_table, reversion_info, steps,
                   suspended>>

NextShared ==
    \/ OpcodeLookup
    \/ CallContextLookup
    \/ StackPush
    \/ SameContextOfStep
    \/ Construct
    \/ Switch

SpecShared == InitShared /\ [][NextShared]_vars

(***************************************************************************)
(* Claims on the execution-state automaton (under SpecExec).               *)
(***************************************************************************)

\* The five rules of the automaton, each stated on its own.
FiveRules(c, n) ==
    /\ (c = "EndTx" => n \in {"BeginTx", "EndBlock"})
    /\ (c = "EndBlock" => n = "EndBlock")
    /\ (n = "BeginTx" => c = "EndTx")
    /\ (n = "EndTx" => (halts(c) \/ c = "BeginTx"))
    /\ (n = "EndBlock" => c \in {"EndTx", "EndBlock"})

SpecialStates == {"BeginTx", "EndTx", "EndBlock"}

\* C1: constrain_execution_state_transition accepts (curr, next) if and only
\* if all five rules hold; in particular EndTx -> BeginTx and EndTx ->
\* EndBlock are accepted, and so is every pair of ordinary opcode states.
C1_ExecutionStateRules ==
    call.op = "constrain_execution_state_transition" =>
        LET c == curr.execution_state
            n == next.execution_state
        IN  /\ (ret.status = "ok") <=> FiveRules(c, n)
            /\ ret.status \in {"ok", "AssertionError"}
            /\ (c = "EndTx" /\ n \in {"BeginTx", "EndBlock"}) => ret.status = "ok"
            /\ (c \notin SpecialStates /\ n \notin SpecialStates) => ret.status = "ok"

\* C1 witness: the last transaction's EndTx was checked against EndBlock and
\* accepted.
C1_Witness ==
    /\ call.op = "constrain_execution_state_transition"
    /\ curr.execution_state = "EndTx"
    /\ next.execution_state = "EndBlock"
    /\ ret.status = "ok"

\* C2: EndBlock is terminal: in a trace whose consecutive pairs were all
\* accepted, every step after an EndBlock step is an EndBlock step, and a
\* check of EndBlock against any other state (BeginTx included) is rejected.
C2_EndBlockTerminal ==
    /\ \A i \in DOMAIN steps : \A j \in DOMAIN steps :
          (i < j /\ steps[i] = "EndBlock") => steps[j] = "EndBlock"
    /\ (/\ call.op = "constrain_execution_state_transition"
        /\ curr.execution_state = "EndBlock"
        /\ next.execution_state # "EndBlock") => ret.status # "ok"

\* C2 witness: a trace went EndTx, EndBlock, EndBlock and its attempt to go
\* on to BeginTx was rejected.
C2_Witness ==
    /\ steps = <<"EndTx", "EndBlock", "EndBlock">>
    /\ call.op = "constrain_execution_state_transition"
    /\ next.execution_state = "BeginTx"
    /\ ret.status = "AssertionError"

(***************************************************************************)
(* Claims on reversible writes (under SpecRev).                            *)
(***************************************************************************)

\* The events the operation invoked last has logged.
LastEvents == SubSeq(log, call.log_at + 1, Len(log))

\* The positions in a sequence of events of the lookups issued at a site.
LookupsAt(evs, site) ==
    {i \in DOMAIN evs : evs[i].ev = "rw_lookup" /\ evs[i].site = site}

\* The query asks for the mirror image of the row: the same tag, id, address,
\* field_tag, storage_key and aux0, a Write, value and value_prev swapped.
IsMirrorOf(query, row) ==
    /\ query.rw = Some("Write")
    /\ query.tag = Some(row.tag)
    /\ query.id = Some(row.id)
    /\ query.address = Some(row.address)
    /\ query.field_tag = Some(row.field_tag)
    /\ query.storage_key = Some(row.storage_key)
    /\ query.aux0 = Some(row.aux0)
    /\ query.value = Some(row.value_prev)
    /\ query.value_prev = Some(row.value)

\* C3: a state_write (of a reversible tag) issues exactly one primary Write
\* lookup, first; once that lookup has returned its row, a mirror Write lookup
\* is issued if and only if a ReversionInfo was supplied whose is_persistent
\* is 0, and its query is the primary row with value and value_prev swapped.
\* For a persistent call, as after a failed primary lookup, none is issued.
C3_StateWriteMirror ==
    (call.op = "state_write" /\ write_with_reversion(call.tag)) =>
        LET evs == LastEvents
            prim == LookupsAt(evs, "rw_lookup")
            mirr == LookupsAt(evs, "state_write")
            nonpersistent ==
                call.with_info /\ reversion_info[1].is_persistent = 0
        IN  /\ prim = {1}
            /\ evs[1].query.rw = Some("Write")
            /\ evs[1].query.tag = Some(call.tag)
            /\ Cardinality(mirr) <= 1
            /\ evs[1].row = None => mirr = {}
            /\ evs[1].row # None => ((mirr # {}) <=> nonpersistent)
            /\ \A i \in mirr : IsMirrorOf(evs[i].query, evs[1].row[1])

\* C3 witness: a state_write for a call that is not persistent has completed,
\* its mirror lookup found the row with the values 0 and 1 swapped.
C3_Witness ==
    /\ call.op = "state_write"
    /\ ret.status = "ok"
    /\ call.with_info
    /\ reversion_info[1].is_persistent = 0
    /\ \E i \in LookupsAt(LastEvents, "state_write") :
          /\ LastEvents[i].row # None
          /\ LastEvents[i].row[1].value = 0
          /\ LastEvents[i].row[1].value_prev = 1

\* The step has so far only called state_write, each time through the
\* ReversionInfo object.
OnlyWritesThroughInfo ==
    /\ reversion_info # None
    /\ \A i \in DOMAIN log :
          log[i].ev = "call" => (log[i].op = "state_write" /\ log[i].with_info)

\* The mirror lookups issued so far, in order.
MirrorLookups ==
    SelectSeq(log, LAMBDA e : e.ev = "rw_lookup" /\ e.site = "state_write")

\* The primary lookups issued so far, in order.
PrimaryLookups ==
    SelectSeq(log, LAMBDA e : e.ev = "rw_lookup" /\ e.site = "rw_lookup")

\* With only state_write calls through the ReversionInfo: for a call that is
\* not persistent the k-th mirror lookup is at first - (k - 1) and asks for
\* the mirror image of the k-th primary row, and two completed calls have
\* produced exactly two mirror rows; for a persistent call there is none.
MirrorsCountDownFrom(first) ==
    OnlyWritesThroughInfo =>
        IF reversion_info[1].is_persistent = 0
        THEN /\ \A k \in DOMAIN MirrorLookups :
                   /\ MirrorLookups[k].query.rw_counter = Some(first - (k - 1))
                   /\ IsMirrorOf(MirrorLookups[k].query, PrimaryLookups[k].row[1])
             /\ (NumCalls = 2 /\ ret.status = "ok") =>
                   /\ Len(MirrorLookups) = 2
                   /\ \A k \in 1 .. 2 : MirrorLookups[k].row # None
        ELSE MirrorLookups = <<>>

\* C4 as stated: the two mirror rows are at rw_counter_end_of_reversion and
\* rw_counter_end_of_reversion - 1, whatever the ReversionInfo has counted.
C4_MirrorsAtEndOfReversion ==
    reversion_info # None =>
        MirrorsCountDownFrom(reversion_info[1].rw_counter_end_of_reversion)

\* C4 as amended: two successive state_write calls through a ReversionInfo
\* that had counted c0 reversible writes before them produce, for a call that
\* is not persistent, exactly two mirror rows, at rw_counter_end_of_reversion
\* - c0 and rw_counter_end_of_reversion - c0 - 1 in that order, each with
\* value and value_prev swapped relative to its primary write; for a
\* persistent call they produce none.
C4_MirrorsBelowCountedWrites ==
    reversion_info # None =>
        MirrorsCountDownFrom(log[1].info.rw_counter_end_of_reversion
                             - log[1].info.reversible_write_counter)

\* C4 witness: two state_write calls have completed through a ReversionInfo
\* that is not persistent and had counted one write before them.
C4_Witness ==
    /\ OnlyWritesThroughInfo
    /\ NumCalls = 2
    /\ ret.status = "ok"
    /\ reversion_info[1].is_persistent = 0
    /\ log[1].info.reversible_write_counter = 1
    /\ Len(MirrorLookups) = 2

\* The values rw_counter_of_reversion has returned so far, in order.
ReversionCounters ==
    SelectSeq(log, LAMBDA e : e.ev = "rw_counter_of_reversion")

\* C5: for a ReversionInfo created with reversible_write_counter = c0, the
\* n-th call of rw_counter_of_reversion returns rw_counter_end_of_reversion -
\* (c0 + n - 1) and n calls leave reversible_write_counter = c0 + n; the
\* values returned are pairwise distinct, each one less than the one before,
\* and rw_counter_end_of_reversion never changes.
C5_ReversionCounterSequence ==
    reversion_info # None =>
        LET created == log[1].info
            c0 == created.reversible_write_counter
            rets == ReversionCounters
        IN  /\ \A n \in DOMAIN rets :
                  rets[n].value =
                      created.rw_counter_end_of_reversion - (c0 + n - 1)
            /\ reversion_info[1].reversible_write_counter = c0 + Len(rets)
            /\ \A n \in DOMAIN rets :
                  n > 1 => rets[n].value = rets[n - 1].value - 1
            /\ \A m \in DOMAIN rets : \A n \in DOMAIN rets :
                  m # n => rets[m].value # rets[n].value
            /\ reversion_info[1].rw_counter_end_of_reversion =
                  created.rw_counter_end_of_reversion
            /\ reversion_info[1].is_persistent = created.is_persistent

\* C5 witness: a ReversionInfo created with one write counted has been asked
\* twice and now counts three.
C5_Witness ==
    /\ reversion_info # None
    /\ log[1].info.reversible_write_counter = 1
    /\ Len(ReversionCounters) = 2
    /\ reversion_info[1].reversible_write_counter = 3

(***************************************************************************)
(* Claims on step-state transitions (under SpecTrans).                     *)
(***************************************************************************)

\* C8: constrain_step_state_transition fails whenever some Delta(k) is given
\* for a field with next.field # curr.field + k, whenever some To(v) is given
\* with next.field # v (whatever curr.field is), and whenever some Same is
\* given with next.field # curr.field; when every transition given matches,
\* the call is accepted.
C8_TransitionKinds ==
    call.op = "constrain_step_state_transition" =>
        LET kw == call.kwargs
            given == DOMAIN kw \cap TransitionKeys
            Broken(key) ==
                \/ kw[key].kind = "Delta" /\ next[key] # curr[key] + kw[key].value
                \/ kw[key].kind = "To" /\ next[key] # kw[key].value
                \/ kw[key].kind = "Same" /\ next[key] # curr[key]
                \/ kw[key].kind = "SameWord" /\ next[key] # curr[key]
                \/ kw[key].kind = "ToWord" /\ next[key] # kw[key].value
        IN  /\ (\E key \in given : Broken(key)) => ret.status = "AssertionError"
            /\ (DOMAIN kw \subseteq TransitionKeys
                  /\ \A key \in given : ~Broken(key)) => ret.status = "ok"

\* C8 witness: Delta(-2) on gas_left was accepted for gas_left 3 -> 1
\* together with a To on program_counter.
C8_Witness ==
    /\ call.op = "constrain_step_state_transition"
    /\ ret.status = "ok"
    /\ DOMAIN call.kwargs = {"gas_left", "program_counter"}
    /\ call.kwargs["gas_left"] = Delta(-2)
    /\ call.kwargs["program_counter"] = To(1)
    /\ curr.gas_left = 3
    /\ next.gas_left = 1

(***************************************************************************)
(* Claims on mul_add_words (under SpecMul).                                *)
(***************************************************************************)

\* a * b + c for the words of the call.
MulAddExact == BigAdd(BigMul(int_value(call.a), int_value(call.b)),
                      int_value(call.c))

\* C6: whenever mul_add_words(a, b, c, d) is accepted, the overflow o it
\* returns satisfies a * b + c = d + o * 2^256 as unbounded integers.
C6_OverflowExact ==
    (call.op = "mul_add_words" /\ ret.status = "ok")
        => MulAddExact = BigAdd(int_value(call.d), ShiftBytes(ret.value, 32))

\* C7: mul_add_words(a, b, c, d) is accepted exactly when d is
\* (a * b + c) mod 2^256, and a call with another d fails in a range check
\* of a carry (a raised ConstraintUnsatFailure).
C7_AcceptedIffLow256 ==
    call.op = "mul_add_words" =>
        LET right == call.d = WordOf(LowBytes(MulAddExact, 32))
        IN  /\ ret.status = "ok" <=> right
            /\ ~right => ret.status = "ConstraintUnsatFailure"

\* A call rejected for a d that is wrong in its high half only, the product
\* overflowing 256 bits.
C7_Witness ==
    /\ call.op = "mul_add_words"
    /\ ret.status = "ConstraintUnsatFailure"
    /\ call.d.lo = LowBytes(MulAddExact, 16)
    /\ call.d.hi # <<>>
    /\ Len(MulAddExact) > 32

(***************************************************************************)
(* Claims on step_state_transition_in_same_context (under SpecSame).       *)
(***************************************************************************)

\* The next value n of a field follows the transition t from c.
Follows(t, c, n) ==
    /\ t.kind = "Same" => n = c
    /\ t.kind = "Delta" => n = c + t.value
    /\ t.kind = "To" => n = t.value

\* C9: step_state_transition_in_same_context is accepted only if gas_left
\* covers gas_cost = constant gas cost of the opcode + dynamic_gas_cost, the
\* next gas_left is the current one less gas_cost, call_id, is_root,
\* is_create and code_hash are unchanged, and each of rw_counter,
\* program_counter, stack_pointer, memory_word_size,
\* reversible_write_counter and log_id follows the transition passed for
\* it, Same when none is passed.
C9_SameContextAccepted ==
    (call.op = "step_state_transition_in_same_context" /\ ret.status = "ok")
        => LET gas_cost == (IF call.opcode = OpGASPRICE THEN 2 ELSE 0)
                               + call.dynamic_gas_cost
           IN  /\ curr.gas_left >= gas_cost
               /\ next.gas_left = curr.gas_left - gas_cost
               /\ next.call_id = curr.call_id
               /\ next.is_root = curr.is_root
               /\ next.is_create = curr.is_create
               /\ next.code_hash = curr.code_hash
               /\ \A key \in SameContextKeys :
                      IF key \in DOMAIN call.given
                      THEN Follows(call.given[key], curr[key], next[key])
                      ELSE next[key] = curr[key]

\* The step of the test: GASPRICE with gas_left 2 -> 0, program_counter
\* 0 -> 1, stack_pointer 1024 -> 1023, rw_counter 9 -> 11, then STOP.
C9_Witness ==
    /\ call.op = "step_state_transition_in_same_context"
    /\ ret.status = "ok"
    /\ call.opcode = OpGASPRICE
    /\ call.dynamic_gas_cost = 0
    /\ DOMAIN call.given = {"rw_counter", "program_counter", "stack_pointer"}
    /\ curr.execution_state = "GASPRICE" /\ next.execution_state = "STOP"
    /\ curr.gas_left = 2 /\ next.gas_left = 0
    /\ curr.program_counter = 0 /\ next.program_counter = 1
    /\ curr.stack_pointer = 1024 /\ next.stack_pointer = 1023
    /\ curr.rw_counter = 9 /\ next.rw_counter = 11

(***************************************************************************)
(* Claims on step_state_transition_to_restored_context (under SpecRestore).*)
(***************************************************************************)

\* The RW-table lookups the call has issued, in order.
RestoreLookups ==
    LET evs == SubSeq(log, call.log_at + 1, Len(log))
    IN  [i \in 1 .. Len(evs) |-> evs[i].query]

\* The field tag (address column) and the direction of the lookups of a
\* complete exit whose caller id is known: eight reads, three writes.
ExitLookups ==
    [i \in 1 .. 11 |->
        IF i <= 8 THEN <<"Read", FieldTagValue(RestoredFieldTags[i])>>
        ELSE <<"Write", FieldTagValue(<<"LastCalleeId",
                                        "LastCalleeReturnDataOffset",
                                        "LastCalleeReturnDataLength">>[i - 8])>>]

\* C10: an accepted step_state_transition_to_restored_context has
\* next.rw_counter = curr.rw_counter + rw_counter_delta + 11 when caller_id
\* is passed and + 12 when it is looked up, and that 11 or 12 is the number
\* of RW-table lookups the call issues and the amount by which it advances
\* rw_counter_offset: the read of CallerId if it is looked up, then the
\* eight reads of the caller's frame, then the three last-callee writes, at
\* consecutive counters.
C10_RestoredRwCounter ==
    (call.op = "step_state_transition_to_restored_context"
     /\ ret.status = "ok")
        => LET looked_up == call.caller_id = None
               n == IF looked_up THEN 12 ELSE 11
               own == IF looked_up THEN 1 ELSE 0
               q == RestoreLookups
           IN  /\ next.rw_counter = curr.rw_counter + call.rw_counter_delta + n
               /\ rw_counter_offset = call.offset_at + n
               /\ Len(q) = n
               /\ \A i \in 1 .. n :
                      q[i].rw_counter
                          = Some(curr.rw_counter + call.offset_at + i - 1)
               /\ looked_up =>
                      /\ q[1].rw = Some("Read")
                      /\ q[1].address = Some(FieldTagValue("CallerId"))
                      /\ q[1].id = Some(curr.call_id)
               /\ \A i \in 1 .. 11 :
                      /\ q[own + i].rw = Some(ExitLookups[i][1])
                      /\ q[own + i].address = Some(ExitLookups[i][2])
                      /\ q[own + i].id = Some(next.call_id)

\* An accepted exit that looked the caller's id up: twelve lookups after the
\* one the step had issued, and a next rw_counter thirteen on.
C10_Witness ==
    /\ call.op = "step_state_transition_to_restored_context"
    /\ ret.status = "ok"
    /\ call.caller_id = None
    /\ call.rw_counter_delta = 1
    /\ call.offset_at = 1
    /\ rw_counter_offset = 13
    /\ next.rw_counter = curr.rw_counter + 13

\* The value the call read or wrote on a call context under the field tag:
\* the value column of the row its lookup returned.
LookedUpValue(field_tag) ==
    LET evs == SubSeq(log, call.log_at + 1, Len(log))
        i == CHOOSE i \in 1 .. Len(evs) :
                 /\ evs[i].ev = "rw_lookup"
                 /\ evs[i].query.address = Some(FieldTagValue(field_tag))
    IN  evs[i].row[1].value

\* C11: an accepted step_state_transition_to_restored_context has
\* next.reversible_write_counter equal to the caller's saved
\* ReversibleWriteCounter plus curr.reversible_write_counter when
\* curr.execution_state halts in success, and equal to the saved counter
\* alone when it does not.
C11_ReversibleWritesPropagated ==
    (call.op = "step_state_transition_to_restored_context"
     /\ ret.status = "ok")
        => next.reversible_write_counter
              = LookedUpValue("ReversibleWriteCounter").lo
                + (IF curr.execution_state \in {"STOP", "RETURN"}
                   THEN curr.reversible_write_counter ELSE 0)

\* An accepted exit of a callee that reverts after a reversible write: the
\* caller's counter is restored without it.
C11_Witness ==
    /\ call.op = "step_state_transition_to_restored_context"
    /\ ret.status = "ok"
    /\ curr.execution_state = "REVERT"
    /\ curr.reversible_write_counter = 1
    /\ next.reversible_write_counter = 4

\* The value saved in the call context of call_id under the field tag: the
\* value column of the rows of the RW table with that id and tag.
SavedValues(call_id, field_tag) ==
    {r.value : r \in {r \in rw_table :
                        /\ r.tag = "CallContext"
                        /\ r.id = call_id
                        /\ r.address = FieldTagValue(field_tag)}}

\* The caller the exit restores: the caller_id passed or, if none is, the
\* CallerId saved in the current call's context.
RestoredCallerIds ==
    IF call.caller_id = None
    THEN {v.lo : v \in SavedValues(curr.call_id, "CallerId")}
    ELSE {call.caller_id[1]}

\* C12: an accepted step_state_transition_to_restored_context has every
\* restored field of next equal to the caller's frame saved in the call
\* context under caller_id: call_id is caller_id, is_root, is_create,
\* code_hash, program_counter, stack_pointer and memory_word_size are the
\* saved values and gas_left is the saved GasLeft plus the gas_left argument.
C12_CallerFrameRestored ==
    (call.op = "step_state_transition_to_restored_context"
     /\ ret.status = "ok")
        => /\ RestoredCallerIds = {next.call_id}
           /\ SavedValues(next.call_id, "IsRoot") = {ValueOf(next.is_root)}
           /\ SavedValues(next.call_id, "IsCreate")
                  = {ValueOf(next.is_create)}
           /\ SavedValues(next.call_id, "CodeHash") = {next.code_hash}
           /\ SavedValues(next.call_id, "ProgramCounter")
                  = {ValueOf(next.program_counter)}
           /\ SavedValues(next.call_id, "StackPointer")
                  = {ValueOf(next.stack_pointer)}
           /\ SavedValues(next.call_id, "MemorySize")
                  = {ValueOf(next.memory_word_size)}
           /\ SavedValues(next.call_id, "GasLeft")
                  = {ValueOf(next.gas_left - call.gas_left)}

\* An accepted exit that looks the caller up and hands 7 gas back to it: the
\* next step is the root caller's frame with gas_left 100 + 7.
C12_Witness ==
    /\ call.op = "step_state_transition_to_restored_context"
    /\ ret.status = "ok"
    /\ call.caller_id = None
    /\ call.gas_left = 7
    /\ next.gas_left = 107
    /\ curr.call_id = 2 /\ next.call_id = 1
    /\ curr.is_root = 0 /\ next.is_root = 1
    /\ next.program_counter = 5 /\ next.stack_pointer = 1020

(***************************************************************************)
(* Claims on the entry into a new context (under SpecNew).                 *)
(***************************************************************************)

\* C13: step_state_transition_to_new_context is accepted only if the next
\* step has program_counter 0, stack_pointer 1024 and memory_word_size 0,
\* whatever transitions are passed for the other eight fields and whatever
\* the current step holds in those three fields.
C13_NewContextInitialised ==
    (call.op = "step_state_transition_to_new_context" /\ ret.status = "ok")
        => /\ next.program_counter = 0
           /\ next.stack_pointer = 1024
           /\ next.memory_word_size = 0

\* An accepted entry from a step with program counter 3, stack pointer 1000
\* and memory size 2, with Transition.same() passed for is_create.
C13_Witness ==
    /\ call.op = "step_state_transition_to_new_context"
    /\ ret.status = "ok"
    /\ call.other = {"is_create"}
    /\ curr.program_counter = 3
    /\ curr.stack_pointer = 1000
    /\ curr.memory_word_size = 2
    /\ next.program_counter = 0

(***************************************************************************)
(* Claims on the error state (under SpecError).                            *)
(***************************************************************************)

\* C14: constrain_error_state is accepted only if the IsSuccess saved in the
\* current call's context is 0 and the next step is EndTx exactly when the
\* current call is the root call.
C14_FailedAndEndTxIffRoot ==
    (call.op = "constrain_error_state" /\ ret.status = "ok")
        => /\ SavedValues(curr.call_id, "IsSuccess") = {ValueOf(0)}
           /\ (next.execution_state = "EndTx") <=> (curr.is_root = 1)

\* An accepted error state of the root call, followed by EndTx.
C14_Witness ==
    /\ call.op = "constrain_error_state"
    /\ ret.status = "ok"
    /\ curr.is_root = 1
    /\ next.execution_state = "EndTx"
    /\ next.rw_counter = curr.rw_counter + call.rw_counter_delta

\* C15: an accepted constrain_error_state of a call that is not the root
\* call has 0 written to its caller's LastCalleeReturnDataOffset and
\* LastCalleeReturnDataLength, and a next step whose gas_left is the
\* caller's saved GasLeft and whose reversible_write_counter is the
\* caller's saved ReversibleWriteCounter.
C15_NonRootErrorExit ==
    (call.op = "constrain_error_state" /\ ret.status = "ok"
     /\ curr.is_root = 0)
        => /\ SavedValues(curr.call_id, "CallerId") = {ValueOf(next.call_id)}
           /\ SavedValues(next.call_id, "LastCalleeReturnDataOffset")
                  = {ValueOf(0)}
           /\ SavedValues(next.call_id, "LastCalleeReturnDataLength")
                  = {ValueOf(0)}
           /\ SavedValues(next.call_id, "GasLeft")
                  = {ValueOf(next.gas_left)}
           /\ SavedValues(next.call_id, "ReversibleWriteCounter")
                  = {ValueOf(next.reversible_write_counter)}

\* An accepted error state of the callee: the next step is the caller's,
\* with the 100 gas it had saved, after 13 rows were read and written.
C15_Witness ==
    /\ call.op = "constrain_error_state"
    /\ ret.status = "ok"
    /\ curr.is_root = 0
    /\ curr.gas_left = 7 /\ curr.reversible_write_counter = 1
    /\ next.gas_left = 100 /\ next.reversible_write_counter = 4
    /\ next.execution_state = "GASPRICE"
    /\ rw_counter_offset = 13

(***************************************************************************)
(* Claims on the word gadgets (under SpecWord).                            *)
(***************************************************************************)

\* C16: compare_word(a, b) returns (1, 0) if a < b, (0, 1) if a = b and
\* (0, 0) if a > b as 256-bit unsigned integers; being one of these three,
\* the outputs are 0 or 1, never both 1, and each pair is returned in its
\* own case only.
C16_CompareWordOrders ==
    call.op = "compare_word"
        => ret = Ok(IF BigLt(int_value(call.lhs), int_value(call.rhs))
                    THEN <<1, 0>>
                    ELSE IF int_value(call.lhs) = int_value(call.rhs)
                    THEN <<0, 1>>
                    ELSE <<0, 0>>)

\* compare_word(5 + 2^128, 1 + 2^129): the low half of the left is the
\* larger, the high half the smaller, and the left is the smaller word.
C16_Witness ==
    /\ call.op = "compare_word"
    /\ call.lhs = Word(<<5>>, <<1>>)
    /\ call.rhs = Word(<<1>>, <<2>>)
    /\ ret = Ok(<<1, 0>>)

\* C17: abs_word(x) passes its constraints for every word x and returns
\* (|x|, is_negative) under 256-bit two's complement: is_negative is 1 iff
\* the top bit of x is set, the result is x if it is not and the word that
\* adds up with x to 2^256 if it is. Applied to its own output, abs_word
\* returns that output unchanged for every x other than 2^255 (-2^255), and
\* abs_word(2^255) returns 2^255 itself.
C17_AbsWordTwosComplement ==
    call.op = "abs_word"
        => /\ ret.status = "ok"
           /\ IF BigLt(int_value(call.x), ShiftBytes(TopBitHalf, 16))
              THEN ret.value = <<call.x, 0>>
              ELSE /\ ret.value[2] = 1
                   /\ BigAdd(int_value(call.x), int_value(ret.value[1]))
                          = Pow256
           /\ (call.of # None /\ call.of[1] # Word(<<>>, TopBitHalf))
                  => ret.value = <<call.x, 0>>
           /\ call.x = Word(<<>>, TopBitHalf)
                  => ret.value = <<call.x, 1>>

\* abs_word applied to abs_word(2^256 - 1) = 1: the second call returns 1
\* again, now as not negative.
C17_Witness ==
    /\ call.op = "abs_word"
    /\ call.of = Some(Word(BigAdd(MaxLimb, ShiftBytes(MaxLimb, 8)),
                           BigAdd(MaxLimb, ShiftBytes(MaxLimb, 8))))
    /\ call.x = Word(<<1>>, <<>>)
    /\ ret = Ok(<<Word(<<1>>, <<>>), 0>>)

\* C18: add_words([a, b]) returns ((a + b) mod 2^256, carry), the carry
\* being 0 if a + b < 2^256 and 1 if not; and if a + b < 2^256, sub_word of
\* that sum and b returns (a, borrow 0).
C18_AddThenSubRecovers ==
    /\ call.op = "add_words"
          => ret = Ok(<<WordOf(LowBytes(BigAdd(int_value(call.a),
                                               int_value(call.b)), 32)),
                        IF BigLt(BigAdd(int_value(call.a), int_value(call.b)),
                                 Pow256)
                        THEN <<>> ELSE <<1>>>>)
    /\ (/\ call.op = "sub_word"
        /\ call.of # None
        /\ BigLt(BigAdd(int_value(call.of[1]), int_value(call.subtrahend)),
                 Pow256))
          => ret = Ok(<<call.of[1], <<>>>>)

\* sub_word(2^128, 1) after add_words([2^128 - 1, 1]) = (2^128, 0): the low
\* halves borrow, and 2^128 - 1 comes back with no borrow.
C18_Witness ==
    /\ call.op = "sub_word"
    /\ call.of = Some(Word(BigAdd(MaxLimb, ShiftBytes(MaxLimb, 8)), <<>>))
    /\ call.minuend = Word(<<>>, <<1>>)
    /\ call.subtrahend = Word(<<1>>, <<>>)
    /\ ret = Ok(<<call.of[1], <<>>>>)

(***************************************************************************)
(* Claims on mul_add_words_512 (under SpecMul512).                         *)
(***************************************************************************)

\* C19: mul_add_words_512(a, b, c, d, e) is accepted if and only if
\* a * b + c = d * 2^256 + e as unbounded integers.
C19_AcceptedIffExact512 ==
    call.op = "mul_add_words_512"
        => (ret.status = "ok"
            <=> MulAddExact = BigAdd(ShiftBytes(int_value(call.d), 32),
                                     int_value(call.e)))

\* An accepted call whose product fills the high half of d:
\* (2^256 - 1) * (2^256 - 1) + c.
C19_Witness ==
    /\ call.op = "mul_add_words_512"
    /\ ret.status = "ok"
    /\ call.a = SampleWords[3] /\ call.b = SampleWords[3]
    /\ Len(MulAddExact) = 64
    /\ call.d.hi # <<>>

(***************************************************************************)
(* Claims on memory_expansion (under SpecMem).                             *)
(***************************************************************************)

\* C20 as stated: memory_expansion(0, 32) from a memory of 0 words yields
\* 1 word and the expansion cost 4, and memory_expansion(31, 1) from 0 words
\* yields 1 word.
C20_FirstWordCostsFour ==
    (call.op = "memory_expansion" /\ curr.memory_word_size = 0)
        => /\ (call.offset = 0 /\ call.length = 32) => ret = Ok(<<1, 4>>)
           /\ (call.offset = 31 /\ call.length = 1)
                  => (ret.status = "ok" /\ ret.value[1] = 1)

\* C20: memory_expansion(0, 32) from a memory of 0 words yields 1 word and
\* the expansion cost 3 (1 * 1 div 512 + 3 * 1, less the cost 0 of no
\* memory), and memory_expansion(31, 1) from 0 words yields 1 word.
C20_FirstWordCostsThree ==
    (call.op = "memory_expansion" /\ curr.memory_word_size = 0)
        => /\ (call.offset = 0 /\ call.length = 32) => ret = Ok(<<1, 3>>)
           /\ (call.offset = 31 /\ call.length = 1)
                  => (ret.status = "ok" /\ ret.value[1] = 1)

\* memory_expansion(0, 32) from no memory: one word, for 3 gas.
C20_Witness ==
    /\ call.op = "memory_expansion"
    /\ curr.memory_word_size = 0
    /\ call.offset = 0 /\ call.length = 32
    /\ ret = Ok(<<1, 3>>)

\* The memory gas of w words: floor(w * w / 512) + 3 * w.
MemoryCost(w) == (w * w) \div 512 + 3 * w

\* ceil(n / 32): the least number of 32-byte words that hold n bytes.
WordsFor(n) == CHOOSE w \in 0 .. n : 32 * w >= n /\ (w = 0 \/ 32 * (w - 1) < n)

\* C21: memory_expansion(offset, length) returns (new, cost(new) -
\* cost(curr.memory_word_size)) where new is the larger of
\* curr.memory_word_size and ceil((offset + length) / 32) and cost(w) is
\* floor(w * w / 512) + 3 * w.
C21_MemoryExpansionCost ==
    call.op = "memory_expansion"
        => LET needed == WordsFor(call.offset + call.length)
               new == IF needed > curr.memory_word_size THEN needed
                      ELSE curr.memory_word_size
           IN  ret = Ok(<<new, MemoryCost(new)
                               - MemoryCost(curr.memory_word_size)>>)

\* memory_expansion(1000, 33) from 2 words: 33 words are needed, at
\* (2 + 99) - (0 + 6) = 95 gas.
C21_Witness ==
    /\ call.op = "memory_expansion"
    /\ curr.memory_word_size = 2
    /\ call.offset = 1000 /\ call.length = 33
    /\ ret = Ok(<<33, 95>>)

(***************************************************************************)
(* Claims on the kind of failure (under SpecConstrain).                    *)
(***************************************************************************)

\* C22: every rejection is of the one kind ConstraintUnsatFailure: a
\* violated constrain_zero, constrain_equal, constrain_in or constrain_bool,
\* a violated step-state transition, an illegal execution-state transition
\* and an operand of compare that does not fit n_bytes.
C22_OnlyConstraintUnsatFailure ==
    (call # NoCall /\ ret.status # "ok")
        => ret.status = "ConstraintUnsatFailure"

(***************************************************************************)
(* Claims on the cursors of one step (under SpecLookup).                   *)
(***************************************************************************)

\* The operation that issued the i-th event of the log.
OpOf(i) ==
    log[CHOOSE j \in 1 .. i :
            /\ log[j].ev = "call"
            /\ \A m \in j + 1 .. i : log[m].ev # "call"].op

\* The RW lookups made without an explicit rw_counter: those of rw_lookup
\* other than the lookups of rw_table_start_lookup.
CursorLookups ==
    {i \in DOMAIN log :
        /\ log[i].ev = "rw_lookup"
        /\ log[i].site = "rw_lookup"
        /\ OpOf(i) # "rw_table_start_lookup"}

BytecodeLookups == {i \in DOMAIN log : log[i].ev = "bytecode_lookup"}

\* C23: within one step the k-th RW lookup made without an explicit
\* rw_counter addresses row curr.rw_counter + k - 1 and rw_counter_offset
\* is the number of such lookups made so far; the k-th opcode_lookup
\* addresses bytecode index curr.program_counter + k - 1.
C23_CursorsCountLookups ==
    /\ \A i \in CursorLookups :
          log[i].query.rw_counter
              = Some(curr.rw_counter
                     + Cardinality({j \in CursorLookups : j < i}))
    /\ rw_counter_offset = Cardinality(CursorLookups)
    /\ \A i \in BytecodeLookups :
          log[i].index = curr.program_counter
                         + Cardinality({j \in BytecodeLookups : j < i})
    /\ program_counter_offset = Cardinality(BytecodeLookups)

\* The GASPRICE step of the test, at rw_counter 9: the call context is read
\* at row 9 and the stack written at row 10, slot 1023, after the opcode
\* was looked up at index 0.
C23_Witness ==
    /\ curr.rw_counter = 9 /\ curr.stack_pointer = 1024
    /\ Len(log) = 6
    /\ log[2].ev = "bytecode_lookup" /\ log[2].index = 0
    /\ log[4].ev = "rw_lookup" /\ log[4].query.tag = Some("CallContext")
    /\ log[4].query.rw_counter = Some(9)
    /\ log[6].ev = "rw_lookup" /\ log[6].query.tag = Some("Stack")
    /\ log[6].query.rw = Some("Write")
    /\ log[6].query.rw_counter = Some(10)
    /\ log[6].query.address = Some(1023)
    /\ ret.status = "ok"
    /\ rw_counter_offset = 2 /\ program_counter_offset = 1

\* The calls of stack_pop and of stack_push; the lookup of a call is the
\* event after it.
Pops == {i \in DOMAIN log : log[i].ev = "call" /\ log[i].op = "stack_pop"}

Pushes == {i \in DOMAIN log : log[i].ev = "call" /\ log[i].op = "stack_push"}

\* pops - pushes among the calls before event i.
StackOffsetBefore(i) ==
    Cardinality({j \in Pops : j < i}) - Cardinality({j \in Pushes : j < i})

\* C24: after any sequence of stack_pop and stack_push calls within one
\* step stack_pointer_offset is the number of pops less the number of
\* pushes; a pop reads the slot curr.stack_pointer + the offset before the
\* call and a push writes the slot curr.stack_pointer + the offset after
\* its decrement. Hence a push right after a pop addresses the slot just
\* popped, a pop right after a push the slot just pushed, and the first
\* push of a step with stack_pointer 1024 writes slot 1023.
C24_StackPointerOffset ==
    /\ stack_pointer_offset = Cardinality(Pops) - Cardinality(Pushes)
    /\ \A i \in Pops :
          /\ log[i + 1].query.rw = Some("Read")
          /\ log[i + 1].query.tag = Some("Stack")
          /\ log[i + 1].query.address
                = Some(curr.stack_pointer + StackOffsetBefore(i))
    /\ \A i \in Pushes :
          /\ log[i + 1].query.rw = Some("Write")
          /\ log[i + 1].query.tag = Some("Stack")
          /\ log[i + 1].query.address
                = Some(curr.stack_pointer + StackOffsetBefore(i) - 1)
    /\ \A i \in Pops \cup Pushes :
          (i + 2 \in Pops \cup Pushes /\ (i \in Pops) # (i + 2 \in Pops))
              => log[i + 3].query.address = log[i + 1].query.address
    /\ \A i \in Pushes :
          (curr.stack_pointer = 1024 /\ StackOffsetBefore(i) = 0)
              => log[i + 1].query.address = Some(1023)

\* A pop of slot 1022, a push to the slot just popped and a pop of it
\* again, all accepted: the offset is 1.
C24_Witness ==
    /\ curr.stack_pointer = 1022
    /\ Len(log) = 6
    /\ log[1].op = "stack_pop" /\ log[2].query.address = Some(1022)
    /\ log[3].op = "stack_push" /\ log[4].query.address = Some(1022)
    /\ log[5].op = "stack_pop" /\ log[6].query.address = Some(1022)
    /\ ret.status = "ok"
    /\ stack_pointer_offset = 1

\* C26: word equality is componentwise: is_equal_word(lhs, rhs) returns 1
\* if lhs.lo = rhs.lo and lhs.hi = rhs.hi and 0 otherwise, also for
\* lhs = (lo 1, hi 0) and rhs = (lo 0, hi 1).
C26_WordEqualityComponentwise ==
    call.op = "is_equal_word"
        => ret = Ok(IF call.lhs.lo = call.rhs.lo /\ call.lhs.hi = call.rhs.hi
                    THEN 1 ELSE 0)

\* C27: range_check(value, n_bytes) reports every failure as
\* ConstraintUnsatFailure, both a value that does not fit n_bytes bytes and
\* a width above MAX_N_BYTES; a value below 256^n_bytes with a supported
\* width gives the n_bytes little-endian bytes that recompose to the value.
C27_RangeCheckFailureKind ==
    call.op = "range_check"
        => IF call.n_bytes <= MAX_N_BYTES /\ Len(call.value) <= call.n_bytes
           THEN /\ ret.status = "ok"
                /\ Len(ret.value) = call.n_bytes
                /\ Trim(ret.value) = call.value
           ELSE ret.status = "ConstraintUnsatFailure"

\* Whether the value of the word is below 256^N_BYTES_MEMORY_ADDRESS.
FitsMemoryAddress(word) == Len(int_value(word)) <= N_BYTES_MEMORY_ADDRESS

\* C28: memory_offset_and_length(offset_word, length_word) returns (0, 0)
\* without failing when length_word is zero, whatever offset_word is; with
\* a non-zero length it fails if one of the two words does not fit the
\* bytes of a memory address and returns (offset, length) otherwise.
C28_MemoryOffsetAndLength ==
    call.op = "memory_offset_and_length"
        => IF int_value(call.length_word) = <<>>
           THEN ret = Ok(<<<<>>, <<>>>>)
           ELSE IF /\ FitsMemoryAddress(call.offset_word)
                   /\ FitsMemoryAddress(call.length_word)
           THEN ret = Ok(<<int_value(call.offset_word), int_value(call.length_word)>>)
           ELSE ret.status \notin {"ok", "none"}

\* A zero length with the offset 2^128 returned (0, 0).
C28_Witness ==
    /\ call.op = "memory_offset_and_length"
    /\ call.offset_word = Word(<<>>, <<1>>)
    /\ call.length_word = Word(<<>>, <<>>)
    /\ ret = Ok(<<<<>>, <<>>>>)

\* C29: every state_write advances rw_counter_offset by exactly 1, whether
\* or not a mirror row is looked up; a lookup given an explicit rw_counter
\* (rw_table_start_lookup) leaves rw_counter_offset as it was; no lookup
\* changes curr, next or the RW table.
C29_LookupFrame ==
    [][/\ call'.op = "state_write"
            => rw_counter_offset' = rw_counter_offset + 1
       /\ call'.op = "rw_table_start_lookup"
            => rw_counter_offset' = rw_counter_offset
       /\ curr' = curr
       /\ next' = next
       /\ rw_table' = rw_table]_vars

\* After a rw_table_start_lookup, a state_write of a call that is not
\* persistent has looked up its row and the mirror row, and the offset is 1.
C29_Witness ==
    /\ Len(log) = 6
    /\ log[1] = [ev |-> "call", op |-> "rw_table_start_lookup"]
    /\ log[3] = [ev |-> "call", op |-> "state_write"]
    /\ log[4].ev = "rw_lookup" /\ log[4].site = "rw_lookup"
    /\ log[6].ev = "rw_lookup" /\ log[6].site = "state_write"
    /\ log[6].query.rw_counter = Some(EndOfReversion)
    /\ ret.status = "ok"
    /\ rw_counter_offset = 1

\* The steps accepted pair by pair so far: the trace up to curr, and next
\* once the pair (curr, next) was accepted.
AcceptedSteps ==
    IF call.op = "constrain_execution_state_transition" /\ ret.status = "ok"
    THEN Append(steps, next.execution_state)
    ELSE steps

\* C30: in a sequence of steps whose consecutive pairs are all accepted by
\* constrain_execution_state_transition, every BeginTx other than the first
\* step comes right after an EndTx, EndTx is never followed by EndTx, and
\* between two BeginTx steps with no BeginTx in between there is exactly one
\* EndTx, the step right before the second BeginTx.
C30_TransactionLifecycle ==
    LET seq == AcceptedSteps
    IN  /\ \A i \in 2 .. Len(seq) :
              seq[i] = "BeginTx" => seq[i - 1] = "EndTx"
        /\ \A i \in 1 .. Len(seq) - 1 :
              seq[i] = "EndTx" => seq[i + 1] # "EndTx"
        /\ \A i \in 1 .. Len(seq), j \in 1 .. Len(seq) :
              (/\ i < j
               /\ seq[i] = "BeginTx"
               /\ seq[j] = "BeginTx"
               /\ \A k \in i + 1 .. j - 1 : seq[k] # "BeginTx")
                  => {k \in i + 1 .. j - 1 : seq[k] = "EndTx"} = {j - 1}

\* Two transactions: BeginTx, STOP, EndTx, and the BeginTx of the second
\* one accepted after the EndTx.
C30_Witness ==
    /\ steps = <<"BeginTx", "STOP", "EndTx">>
    /\ next.execution_state = "BeginTx"
    /\ AcceptedSteps = <<"BeginTx", "STOP", "EndTx", "BeginTx">>

\* C25: the verifications of two steps do not interfere, however their
\* operations interleave: an Instruction on which nothing was invoked yet
\* has its four offsets at 0, an operation of the running Instruction
\* leaves the other Instruction as it was, and no operation writes to an
\* object the Instructions share, the default Transition objects of
\* step_state_transition_in_same_context among them.
C25_NoInterference ==
    /\ [](call = NoCall => offsets = <<0, 0, 0, 0>>)
    /\ [][/\ Switch \/ suspended' = suspended
          /\ default_transitions' = default_transitions]_vars

\* C37: for all 256-bit words m and s, sub_word(m, s) returns
\* ((m - s) mod 2^256, borrow), borrow being 1 if m < s and 0 if not, also
\* when the low halves borrow and the high halves are equal or differ by
\* one.
C37_SubWordModular ==
    call.op = "sub_word"
        => LET m == int_value(call.minuend)
               s == int_value(call.subtrahend)
           IN  ret.value =
                   IF BigLt(m, s)
                   THEN <<WordOf(BigSub(BigAdd(m, Pow256), s)), <<1>>>>
                   ELSE <<WordOf(BigSub(m, s)), <<>>>>

\* 2^128 less 5 + 2^128: the low halves borrow, the high halves are equal,
\* and the result is 2^256 - 5 with the borrow 1.
C37_Witness ==
    /\ call.op = "sub_word"
    /\ call.minuend = Word(<<>>, <<1>>)
    /\ call.subtrahend = Word(<<5>>, <<1>>)
    /\ ret.value = <<WordOf(BigSub(Pow256, <<5>>)), <<1>>>>

\* A failed root call whose next step is EndTx: what constrain_error_state
\* asks for before the transition of the step state.
RootErrorToEndTx ==
    /\ call.op = "constrain_error_state"
    /\ curr.is_root = 1
    /\ SavedValues(curr.call_id, "IsSuccess") = {ValueOf(0)}
    /\ next.execution_state = "EndTx"

\* C38 as stated: when curr.is_root is true, constrain_error_state requires
\* next.rw_counter = curr.rw_counter + rw_counter_delta and places no
\* constraint on any other field of the next step's state.
C38_OnlyRwCounterConstrained ==
    (RootErrorToEndTx
     /\ next.rw_counter = curr.rw_counter + call.rw_counter_delta)
        => ret.status = "ok"

\* C38 amended: when curr.is_root is true, constrain_error_state requires
\* next.rw_counter = curr.rw_counter + rw_counter_delta and
\* next.call_id = curr.call_id, and places no constraint on the other
\* fields of the next step's state.
C38_RwCounterAndCallId ==
    RootErrorToEndTx
        => (ret.status = "ok"
            <=> /\ next.rw_counter = curr.rw_counter + call.rw_counter_delta
                /\ next.call_id = curr.call_id)

\* An accepted error state of the root call whose next step differs from
\* the current one in its code hash, program counter, stack pointer, gas
\* and reversible write counter, and from the step SpecError expects in its
\* memory size.
C38_Witness ==
    /\ RootErrorToEndTx
    /\ ret.status = "ok"
    /\ next.code_hash # curr.code_hash
    /\ next.program_counter # curr.program_counter
    /\ next.stack_pointer # curr.stack_pointer
    /\ next.gas_left # curr.gas_left
    /\ next.reversible_write_counter # curr.reversible_write_counter
    /\ next.memory_word_size = 1

(***************************************************************************)
(* Further claims on step_state_transition_to_restored_context (under      *)
(* SpecRestore).                                                           *)
(***************************************************************************)

\* The events of the lookups the call has issued, in order.
RestoreEvents == SubSeq(log, call.log_at + 1, Len(log))

\* What the exit asks of the tables, of curr and of every field of next
\* but log_id: each of its 11 or 12 lookups finds its row, the three rows
\* written carry the expected values, and the ten restored fields of next are
\* those of the caller's frame read.
RestoredButLogId ==
    LET looked_up == call.caller_id = None
        own == IF looked_up THEN 1 ELSE 0
        n == 11 + own
        evs == RestoreEvents
        read(i) == evs[own + i].row[1].value
    IN  /\ Len(evs) = n
        /\ \A i \in 1 .. n : evs[i].row # None
        /\ read(9).lo = curr.call_id
        /\ read(10).lo = call.return_data_offset
        /\ read(11).lo = call.return_data_length
        /\ next.rw_counter = curr.rw_counter + call.rw_counter_delta + n
        /\ next.call_id = IF looked_up THEN evs[1].row[1].value.lo
                          ELSE call.caller_id[1]
        /\ next.is_root = read(1).lo
        /\ next.is_create = read(2).lo
        /\ next.code_hash = read(3)
        /\ next.program_counter = read(4).lo
        /\ next.stack_pointer = read(5).lo
        /\ next.gas_left = read(6).lo + call.gas_left
        /\ next.memory_word_size = read(7).lo
        /\ next.reversible_write_counter
               = read(8).lo + (IF curr.execution_state \in {"STOP", "RETURN"}
                               THEN curr.reversible_write_counter ELSE 0)

\* C33: step_state_transition_to_restored_context places no constraint on
\* next.log_id: whether the call is accepted is settled by the tables, curr,
\* the arguments and the fields of next other than log_id, so a next that
\* differs from an accepted one only in log_id is accepted too.
C33_LogIdUnconstrained ==
    call.op = "step_state_transition_to_restored_context"
        => (ret.status = "ok" <=> RestoredButLogId)

\* An accepted exit whose next step has a log_id other than the current
\* step's, every other field being the caller's frame.
C33_Witness ==
    /\ call.op = "step_state_transition_to_restored_context"
    /\ ret.status = "ok"
    /\ curr.log_id = 0
    /\ next.log_id = 1
    /\ next.call_id = 1
    /\ next.program_counter = 5

\* The values the last-callee rows must carry, in the order of the writes.
LastCalleeUpdates ==
    <<<<"LastCalleeId", curr.call_id>>,
      <<"LastCalleeReturnDataOffset", call.return_data_offset>>,
      <<"LastCalleeReturnDataLength", call.return_data_length>>>>

\* C36: step_state_transition_to_restored_context is accepted only if the
\* three Write rows on the caller's call context, looked up after the eight
\* reads of the caller's frame and in the order LastCalleeId,
\* LastCalleeReturnDataOffset, LastCalleeReturnDataLength, carry curr.call_id,
\* the return_data_offset argument and the return_data_length argument; a
\* row found with another value has the call rejected.
C36_LastCalleeWrites ==
    call.op = "step_state_transition_to_restored_context"
        => LET own == IF call.caller_id = None THEN 1 ELSE 0
               evs == RestoreEvents
               written(i) == evs[own + 8 + i]
           IN  /\ ret.status = "ok" =>
                      /\ Len(evs) = own + 11
                      /\ \A i \in 1 .. 8 :
                             evs[own + i].query.rw = Some("Read")
                      /\ \A i \in 1 .. 3 :
                             /\ written(i).query.rw = Some("Write")
                             /\ written(i).query.tag = Some("CallContext")
                             /\ written(i).query.id = Some(next.call_id)
                             /\ written(i).query.address
                                    = Some(FieldTagValue(
                                               LastCalleeUpdates[i][1]))
                             /\ written(i).row[1].value.lo
                                    = LastCalleeUpdates[i][2]
               /\ \A i \in 1 .. 3 :
                      (/\ Len(evs) >= own + 8 + i
                       /\ written(i).row # None
                       /\ written(i).row[1].value.lo # LastCalleeUpdates[i][2])
                          => ret.status = "AssertionError"

\* An accepted exit of call 2 returning 32 bytes at offset 64: the rows
\* written on the caller's context carry 2, 64 and 32.
C36_Witness ==
    /\ call.op = "step_state_transition_to_restored_context"
    /\ ret.status = "ok"
    /\ curr.call_id = 2
    /\ call.return_data_offset = 64
    /\ call.return_data_length = 32
    /\ LookedUpValue("LastCalleeId") = ValueOf(2)
    /\ LookedUpValue("LastCalleeReturnDataOffset") = ValueOf(64)
    /\ LookedUpValue("LastCalleeReturnDataLength") = ValueOf(32)

(***************************************************************************)
(* Further claims on state_write and the ReversionInfo (under SpecRev).    *)
(***************************************************************************)

\* A step of the model that is one call of state_write.
StateWriteStep == call' # call /\ call'.op = "state_write"

\* The call of the step reaches the mirror lookup: the ReversionInfo is
\* passed, its call is not persistent and the primary row was found.
MirrorStep ==
    /\ call'.with_info
    /\ reversion_info[1].is_persistent = 0
    /\ Len(log') > call'.log_at
    /\ log'[call'.log_at + 1].row # None

\* C32: a state_write that writes no mirror row (no ReversionInfo passed, or
\* is_persistent non-zero) leaves the ReversionInfo as it was, its
\* reversible_write_counter included; a state_write that writes a mirror row
\* adds exactly 1 to reversible_write_counter and changes nothing else of
\* the ReversionInfo.
C32_ReversionInfoFrame ==
    [][StateWriteStep =>
          IF MirrorStep
          THEN reversion_info'
                   = Some([reversion_info[1] EXCEPT
                              !.reversible_write_counter = @ + 1])
          ELSE reversion_info' = reversion_info]_vars

\* Two accepted calls of state_write for a persistent call that had counted
\* one reversible write: the ReversionInfo still counts one.
C32_Witness ==
    /\ call.op = "state_write"
    /\ call.with_info
    /\ ret.status = "ok"
    /\ NumCalls = 2
    /\ log[1].info = reversion_info[1]
    /\ reversion_info[1].is_persistent = 1
    /\ reversion_info[1].reversible_write_counter = 1

(***************************************************************************)
(* Further claims on the memory expansion (under SpecMem).                 *)
(***************************************************************************)

\* The words the regions of the call reach: ceil((offset + length) / 32) of
\* memory_expansion, and for memory_expansion_dynamic_length the larger of
\* that of the call data and, if both its offset and its length are given,
\* that of the return data.
WordsReached ==
    IF call.op = "memory_expansion"
    THEN WordsFor(call.offset + call.length)
    ELSE LET cd == WordsFor(call.cd_offset + call.cd_length)
             rd == IF call.rd_offset # None /\ call.rd_length # None
                   THEN WordsFor(call.rd_offset[1] + call.rd_length[1])
                   ELSE 0
         IN  IF rd > cd THEN rd ELSE cd

\* C34: memory_expansion never shrinks memory and never charges a negative
\* cost: the new word size returned is at least curr.memory_word_size, the
\* expansion cost returned is at least 0, and the cost is 0 whenever the
\* words the region reaches are at most curr.memory_word_size; the same
\* holds for memory_expansion_dynamic_length with or without the return-data
\* region.
C34_MemoryNeverShrinks ==
    (/\ call.op \in {"memory_expansion", "memory_expansion_dynamic_length"}
     /\ ret.status = "ok")
        => /\ ret.value[1] >= curr.memory_word_size
           /\ ret.value[2] >= 0
           /\ WordsReached <= curr.memory_word_size => ret.value[2] = 0

\* A step with 40 words of memory whose call data ends in word 3 and whose
\* return data ends in word 4: the size stays 40 and nothing is charged.
C34_Witness ==
    /\ call.op = "memory_expansion_dynamic_length"
    /\ curr.memory_word_size = 40
    /\ call.cd_offset = 64 /\ call.cd_length = 33
    /\ call.rd_offset = Some(96) /\ call.rd_length = Some(32)
    /\ ret = Ok(<<40, 0>>)

(***************************************************************************)
(* Claims on reversion_info (under SpecInfo).                              *)
(***************************************************************************)

\* The lookups of the call under its "call" event in the log.
InfoLookups == SubSeq(log, call.log_at + 1, Len(log))

\* The step began with reversion_info() for the current call and went on to
\* a state_write that was given the object and reached its mirror lookup.
FirstMirrorOfCurrentCall ==
    /\ call.op = "state_write"
    /\ call.with_info
    /\ log[1].op = "reversion_info"
    /\ log[1].call_id = None
    /\ log[Len(log)].ev = "rw_lookup"
    /\ log[Len(log)].site = "state_write"

\* C35: reversion_info(call_id) reads RwCounterEndOfReversion and then
\* IsPersistent from the call context of call_id, or of the current call if
\* call_id is omitted, at two consecutive rw counters, and returns a
\* ReversionInfo with the two values read whose reversible_write_counter is
\* curr.reversible_write_counter when call_id is omitted and 0 when it is
\* given; so the first mirror row of the current call is looked up at
\* rw_counter_end_of_reversion - curr.reversible_write_counter.
C35_ReversionInfoRead ==
    /\ (call.op = "reversion_info" /\ ret.status = "ok")
          => LET q == [i \in 1 .. 2 |-> InfoLookups[i].query]
                 id == IF call.call_id = None THEN curr.call_id
                       ELSE call.call_id[1]
             IN  /\ Len(InfoLookups) = 2
                 /\ rw_counter_offset = call.offset_at + 2
                 /\ \A i \in 1 .. 2 :
                        /\ q[i].rw = Some("Read")
                        /\ q[i].tag = Some("CallContext")
                        /\ q[i].id = Some(id)
                        /\ q[i].rw_counter
                               = Some(curr.rw_counter + call.offset_at + i - 1)
                 /\ q[1].address
                        = Some(FieldTagValue("RwCounterEndOfReversion"))
                 /\ q[2].address = Some(FieldTagValue("IsPersistent"))
                 /\ reversion_info =
                        Some([rw_counter_end_of_reversion |->
                                  InfoLookups[1].row[1].value.lo,
                              is_persistent |->
                                  InfoLookups[2].row[1].value.lo,
                              reversible_write_counter |->
                                  IF call.call_id = None
                                  THEN curr.reversible_write_counter
                                  ELSE 0])
    /\ FirstMirrorOfCurrentCall
          => log[Len(log)].query.rw_counter
                 = Some(reversion_info[1].rw_counter_end_of_reversion
                        - curr.reversible_write_counter)

\* A step that had counted two reversible writes builds the ReversionInfo of
\* its own call and writes with it: the mirror row is found at the end of
\* reversion less 2, and the object counts 3.
C35_Witness ==
    /\ FirstMirrorOfCurrentCall
    /\ ret.status = "ok"
    /\ curr.reversible_write_counter = 2
    /\ log[Len(log)].query.rw_counter = Some(EndOfReversion - 2)
    /\ reversion_info
           = Some([rw_counter_end_of_reversion |-> EndOfReversion,
                   is_persistent |-> 0, reversible_write_counter |-> 3])

(***************************************************************************)
(* Claims on transfers (under SpecTransfer).                               *)
(***************************************************************************)

\* The lookups of the transfer: those its state writes address through the
\* cursor, and those of the mirror rows.
TransferWrites ==
    SelectSeq(SubSeq(log, call.log_at + 1, Len(log)),
              LAMBDA e : e.ev = "rw_lookup" /\ e.site = "rw_lookup")

TransferMirrors ==
    SelectSeq(SubSeq(log, call.log_at + 1, Len(log)),
              LAMBDA e : e.ev = "rw_lookup" /\ e.site = "state_write")

\* C31: transfer(sender, receiver, value) is accepted only if the sender's
\* balance row has balance_prev = balance + value and the receiver's has
\* balance = balance_prev + value, as integers below 2^256 (no carry), so
\* what is debited is what is credited; transfer_with_gas_fee debits value +
\* gas_fee and credits value. Both make exactly two state writes, the
\* sender's before the receiver's, each taking one reversion slot when the
\* ReversionInfo is given and its call is not persistent.
C31_TransferBalances ==
    (call.op \in {"transfer", "transfer_with_gas_fee"} /\ ret.status = "ok")
        => LET w == TransferWrites
               m == TransferMirrors
               sender == w[1].row[1]
               receiver == w[2].row[1]
               reversible == call.with_info
                             /\ call.info_at[1].is_persistent = 0
           IN  /\ Len(w) = 2
               /\ rw_counter_offset = call.offset_at + 2
               /\ \A i \in 1 .. 2 :
                      /\ w[i].query.rw = Some("Write")
                      /\ w[i].query.tag = Some("Account")
                      /\ w[i].query.field_tag = Some(2)
                      /\ w[i].query.rw_counter
                             = Some(curr.rw_counter + call.offset_at + i - 1)
               /\ w[1].query.address = Some(254)
               /\ w[2].query.address = Some(255)
               /\ int_value(sender.value_prev)
                      = BigAdd(BigAdd(int_value(sender.value),
                                      int_value(call.value)),
                               int_value(call.gas_fee))
               /\ int_value(receiver.value)
                      = BigAdd(int_value(receiver.value_prev),
                               int_value(call.value))
               /\ call.op = "transfer" => call.gas_fee = WordOf(<<>>)
               /\ IF reversible
                  THEN /\ Len(m) = 2
                       /\ \A i \in 1 .. 2 :
                              m[i].query.rw_counter
                                  = Some(call.info_at[1]
                                             .rw_counter_end_of_reversion
                                         - (call.info_at[1]
                                                .reversible_write_counter
                                            + i - 1))
                       /\ reversion_info
                              = Some([call.info_at[1] EXCEPT
                                         !.reversible_write_counter = @ + 2])
                  ELSE /\ Len(m) = 0
                       /\ reversion_info = call.info_at

\* An accepted transfer of 5 by a call that is not persistent, from a sender
\* left with 2^128 - 1 to a receiver that had 2^128 - 1: two reversion slots
\* are taken.
C31_Witness ==
    /\ call.op = "transfer"
    /\ ret.status = "ok"
    /\ call.value = WordOf(<<5>>)
    /\ call.with_info
    /\ call.info_at[1].is_persistent = 0
    /\ call.info_at[1].reversible_write_counter = 1
    /\ reversion_info[1].reversible_write_counter = 3
    /\ TransferWrites[1].row[1].value = WordOf(LowHalfMax)
    /\ TransferWrites[1].row[1].value_prev = WordOf(LowHalfCarried)
    /\ TransferWrites[2].row[1].value = WordOf(LowHalfCarried)
    /\ Len(TransferMirrors) = 2

=============================================================================
